---- MODULE Spec2Model ----
(***************************************************************************)
(* Model of the Forge Cognition inference server                           *)
(* (honeywell-forge-lab/inference-server/server.py): the SessionManager    *)
(* registry with its asyncio lock, the chat handler with its suspension    *)
(* point inside InferenceEngine.generate, the background cleanup loop and   *)
(* the GPUMonitor thermal state.                                           *)
(*                                                                         *)
(* Each request is one task.  A task is scheduled between the points where *)
(* the code can suspend: asyncio.Lock.acquire (entering `async with        *)
(* self._lock`) and the asyncio.sleep calls of InferenceEngine.generate.   *)
(* The body of every `async with self._lock` block contains no await, so   *)
(* body and lock release are one step.                                     *)
(*                                                                         *)
(* Floats (avg_latency_ms) are modelled as exact rationals <<num, den>> in *)
(* lowest terms; time.time() is an integer clock.                          *)
(***************************************************************************)
EXTENDS Integers, FiniteSets, Sequences, TLC

\* ------------------------------------------------------------------ bounds
NumTasks == 2        \* concurrent client requests
NumIds == 2          \* size of the id space of str(uuid.uuid4())[:8]
MaxCapacity == 2     \* config.max_concurrent_sessions ranges over 1..MaxCapacity
MaxTime == 2         \* time.time() ranges over 0..MaxTime
MaxIdle == 1         \* max_idle_seconds ranges over 0..MaxIdle
NumGpus == 2         \* pynvml.nvmlDeviceGetCount()
MaxSamples == 2      \* iterations of the gpu-metrics.py monitoring loop
NumUsers == 2        \* num_users of run_concurrent_test ranges over 1..NumUsers
MaxRequests == 2     \* requests_per_user ranges over 1..MaxRequests
MaxBuffer == 4       \* values recorded by a MetricsCollector

Tasks == 1..NumTasks
Ids == 1..NumIds
Gpus == 0..(NumGpus - 1)
Latencies == {1, 2}  \* result["total_latency_ms"]
TokenCounts == {2}   \* result["output_tokens"]
BenchLatencies == {1} \* result["total_latency_ms"] of a benchmark request
BenchTtfts == {10}    \* result["ttft_ms"] of a benchmark request
\* nvmlDeviceGetTemperature results: just below and at each threshold
Temps == {74, 75, 82, 83, 89, 90}
\* the temperatures offered while admission is exercised; 0 is also the value
\* get_gpu_stats substitutes when the temperature read raises
AdmissionTemps == {0, 83, 90}
\* the temperatures that switch a gpu between normal and critical
CriticalTemps == {0, 90}
\* GPUSnapshot.memory_percent: below, at and above each memory threshold
MemPercents == {79, 80, 81, 90, 91}
\* what gpu-metrics.py reads from one device: a failed read, or the memory
\* usage and temperature
MonitorReadings ==
    {[ok |-> FALSE, memory_percent |-> 0, temperature |-> 0]} \cup
    [ok : {TRUE}, memory_percent : MemPercents, temperature : CriticalTemps]
\* concurrency level lists given to a benchmark
LevelLists == {<<1>>, <<2>>, <<1, 2>>, <<2, 1>>}
\* time to first token of a successful request, in ms
TtftValues == {10, 20}
\* tokens per second of a successful request
TpsValues == {500}
\* wall-clock duration of a level, in seconds
Durations == {1}
\* gpu["memory_percent"] read by the memory profiler: at and above its 90%
\* threshold
ProfilerPercents == {90, 91}
\* ttft_ms values recorded by the load test
SampleValues == {1, 2, 4}
\* str(e) of an exception raised in _send_request
ErrorTexts == {"", "Connection refused"}
\* the handlers that call gpu_monitor.get_gpu_stats()
Handlers == {"health_check", "get_sku_info", "gpu_stats", "gpu_thermal", "metrics"}

ReadFailed == -1     \* a device whose stats could not be read in a poll
NoId == 0
NoHolder == 0
Sweeper == NumTasks + 1   \* the cleanup_loop task
NoExit == -1         \* the process has not exited

\* ---------------------------------------------------- program constants
warning_temp_celsius == 75
throttle_temp_celsius == 83
critical_temp_celsius == 90
reject_on_critical == TRUE
reduce_sessions_on_throttle == TRUE
memory_warning == 80     \* gpu-metrics.py --memory-warning default
memory_critical == 90    \* gpu-metrics.py --memory-critical default

VARIABLES
    max_sessions,    \* SessionManager.max_sessions
    loaded,          \* InferenceEngine.loaded
    sessions,        \* SessionManager.sessions: id -> InferenceSession
    lock,            \* SessionManager._lock: its holder, NoHolder when free
    ACTIVE_SESSIONS, \* the forge_active_sessions gauge
    initialized,     \* GPUMonitor.initialized
    thermal_state,   \* GPUMonitor.thermal_state: gpu -> state
    now,             \* time.time()
    task,            \* the request tasks
    sweeper,         \* position of cleanup_loop: "sleep" or "cs"
    released,        \* history: ids removed by close_session or cleanup
    lat_sum,         \* history: id -> sum of the latencies applied since creation
    last_sweep,      \* history: what the latest cleanup_stale_sessions call did
    poll,            \* history: caller, readings and result of the latest get_gpu_stats
    monitor,         \* gpu-metrics.py main: snapshots, printed alerts, sample_count
    users,           \* run_concurrent_test: the user_session coroutines
    requests_per_user, \* run_concurrent_test: its argument, 0 before the run
    results,         \* run_concurrent_test: the flattened results
    suite,           \* benchmark_inference.py main and run_suite
    llm,             \* benchmark_llm.py main and run_benchmark
    loadtest,        \* load-test-comparison.py run_load_test
    collector,       \* locustfile.py MetricsCollector
    profiler         \* memory_profiler.py MemoryProfiler and profile_sessions

vars == <<max_sessions, loaded, sessions, lock, ACTIVE_SESSIONS, initialized,
          thermal_state, now, task, sweeper, released, lat_sum, last_sweep,
          poll, monitor, users, requests_per_user, results, suite, llm,
          loadtest, collector, profiler>>

gpu_vars == <<initialized, thermal_state>>
conf_vars == <<max_sessions, loaded>>
bench_vars == <<users, requests_per_user, results>>
tool_vars == <<suite, llm, loadtest, collector, profiler>>

\* ------------------------------------------------------------- rationals
RECURSIVE GCD(_, _)
GCD(a, b) == IF b = 0 THEN a ELSE GCD(b, a % b)

Abs(x) == IF x < 0 THEN -x ELSE x

\* the rational n/d (d > 0) in lowest terms
Rat(n, d) == LET g == GCD(Abs(n), d) IN <<n \div g, d \div g>>

RatEq(p, q) == p[1] * q[2] = q[1] * p[2]

RatLeq(p, q) == p[1] * q[2] <= q[1] * p[2]

Min(a, b) == IF a <= b THEN a ELSE b

\* ------------------------------------------------------- SessionManager
\* InferenceSession(session_id, created_at=now, last_request=now)
InferenceSession(time) ==
    [created_at |-> time, last_request |-> time, request_count |-> 0,
     total_tokens |-> 0, avg_latency_ms |-> <<0, 1>>]

\* create_session with `>` for `>=` in the capacity test
Admits_OffByOne(s, cap) == ~(Cardinality(DOMAIN s) > cap)

\* create_session: the capacity test (its negation raises 503)
Admits(s, cap) == ~(Cardinality(DOMAIN s) >= cap)

\* create_session: self.sessions[session_id] = InferenceSession(...)
Register(s, id, time) ==
    [x \in DOMAIN s \cup {id} |-> IF x = id THEN InferenceSession(time) ELSE s[x]]

\* update_session weighting the old average by request_count
RunningAverage_NoDecrement(avg, count, latency_ms) ==
    Rat(avg[1] * count + latency_ms * avg[2], avg[2] * count)

\* update_session: the running average
\* (avg_latency_ms * (request_count - 1) + latency_ms) / request_count
RunningAverage(avg, count, latency_ms) ==
    Rat(avg[1] * (count - 1) + latency_ms * avg[2], avg[2] * count)

\* update_session: the new field values of one session
Touch(s, tokens, latency_ms, time) ==
    [s EXCEPT !.last_request = time,
              !.request_count = s.request_count + 1,
              !.total_tokens = s.total_tokens + tokens,
              !.avg_latency_ms =
                  RunningAverage(s.avg_latency_ms, s.request_count + 1, latency_ms)]

\* update_session registering an id it does not find
UpdateRegistry_Upsert(s, id, tokens, latency_ms, time) ==
    IF id \in DOMAIN s
    THEN [s EXCEPT ![id] = Touch(s[id], tokens, latency_ms, time)]
    ELSE Register(s, id, time)

\* update_session: the registry after the call
UpdateRegistry(s, id, tokens, latency_ms, time) ==
    IF id \in DOMAIN s
    THEN [s EXCEPT ![id] = Touch(s[id], tokens, latency_ms, time)]
    ELSE s

\* close_session: the registry after the call
CloseRegistry(s, id) ==
    IF id \in DOMAIN s THEN [x \in DOMAIN s \ {id} |-> s[x]] ELSE s

\* DELETE answering 404 for an id that is not registered
CloseStatus_NotFound(s, id) == IF id \in DOMAIN s THEN 200 ELSE 404

\* DELETE /v1/sessions/{id}: the status of the response, whatever the registry
CloseStatus(s, id) == 200

\* cleanup_stale_sessions with `>=` for `>`
StaleIds_Inclusive(s, time, max_idle_seconds) ==
    {sid \in DOMAIN s : time - s[sid].last_request >= max_idle_seconds}

\* staleness measured from the creation of the session
StaleIds_ByCreation(s, time, max_idle_seconds) ==
    {sid \in DOMAIN s : time - s[sid].created_at > max_idle_seconds}

\* cleanup_stale_sessions: the list `stale`
StaleIds(s, time, max_idle_seconds) ==
    {sid \in DOMAIN s : time - s[sid].last_request > max_idle_seconds}

\* cleanup_stale_sessions: the registry after the call
SweepRegistry(s, time, max_idle_seconds) ==
    [x \in DOMAIN s \ StaleIds(s, time, max_idle_seconds) |-> s[x]]

\* get_session without the membership test
Found_Always(s, id) == TRUE

\* get_session: raises 404 unless the id is registered
Found(s, id) == id \in DOMAIN s

\* list_sessions: the "count" field of the response
ListCount(s) == Cardinality(DOMAIN s)

\* ------------------------------------------------------------ GPUMonitor
InitialThermal ==
    [is_throttling |-> FALSE, is_critical |-> FALSE, is_warning |-> FALSE,
     last_temp |-> 0]

\* get_gpu_stats with strict comparisons
Classify_Strict(temp) ==
    [is_throttling |-> temp > throttle_temp_celsius,
     is_critical |-> temp > critical_temp_celsius,
     is_warning |-> temp > warning_temp_celsius,
     last_temp |-> temp]

\* get_gpu_stats: the thermal state derived from one temperature
Classify(temp) ==
    [is_throttling |-> temp >= throttle_temp_celsius,
     is_critical |-> temp >= critical_temp_celsius,
     is_warning |-> temp >= warning_temp_celsius,
     last_temp |-> temp]

\* the "thermal_state" of a stat in get_gpu_stats and the "state" of a gpu in
\* get_thermal_summary: the same cascade over the three flags
ThermalStateName(state) ==
    IF state.is_critical THEN "critical"
    ELSE IF state.is_throttling THEN "throttling"
    ELSE IF state.is_warning THEN "warning"
    ELSE "normal"

\* the stat get_gpu_stats appends for gpu i
Stat(i, temp) ==
    [gpu_id |-> i, temperature_celsius |-> temp,
     thermal_state |-> ThermalStateName(Classify(temp))]

\* the loop of get_gpu_stats from handle i on, without the failed devices
RECURSIVE StatsLoop_KeepFailed(_, _)
StatsLoop_KeepFailed(i, reading) ==
    IF i >= NumGpus THEN <<>>
    ELSE <<Stat(i, IF reading[i] = ReadFailed THEN 0 ELSE reading[i])>>
             \o StatsLoop_KeepFailed(i + 1, reading)

\* the loop of get_gpu_stats from handle i on: a device whose read raises is
\* skipped, every other device appends one stat
RECURSIVE StatsLoop(_, _)
StatsLoop(i, reading) ==
    IF i >= NumGpus THEN <<>>
    ELSE (IF reading[i] = ReadFailed THEN <<>> ELSE <<Stat(i, reading[i])>>)
             \o StatsLoop(i + 1, reading)

is_any_gpu_throttling == \E i \in DOMAIN thermal_state : thermal_state[i].is_throttling

\* is_any_gpu_critical answering yes when the monitor has no device
is_any_gpu_critical_FailClosed ==
    \/ ~initialized
    \/ \E i \in DOMAIN thermal_state : thermal_state[i].is_critical

is_any_gpu_critical == \E i \in DOMAIN thermal_state : thermal_state[i].is_critical

\* get_thermal_summary()["status"]
ThermalSummaryStatus ==
    IF ~initialized THEN "unknown"
    ELSE IF is_any_gpu_critical THEN "critical"
    ELSE IF is_any_gpu_throttling THEN "throttling"
    ELSE "normal"

\* ------------------------------------------------------- gpu-metrics.py
\* GPUMonitor.get_snapshot from handle i on: a device whose read raises is
\* skipped, every other device appends one GPUSnapshot
RECURSIVE SnapshotLoop(_, _)
SnapshotLoop(i, reading) ==
    IF i >= NumGpus THEN <<>>
    ELSE (IF reading[i].ok
            THEN <<[gpu_id |-> i, memory_percent |-> reading[i].memory_percent,
                    temperature |-> reading[i].temperature]>>
            ELSE <<>>)
             \o SnapshotLoop(i + 1, reading)

\* print_live_metrics: the memory alert of one snapshot
MemAlert(memory_percent) ==
    IF memory_percent > memory_critical THEN "CRITICAL"
    ELSE IF memory_percent > memory_warning THEN "WARNING"
    ELSE ""

\* ------------------------------------------------------------ percentiles
\* sorted(data): insertion of x into an ascending sequence
RECURSIVE Insert(_, _)
Insert(x, sorted) ==
    IF sorted = <<>> THEN <<x>>
    ELSE IF x <= Head(sorted) THEN <<x>> \o sorted
    ELSE <<Head(sorted)>> \o Insert(x, Tail(sorted))

\* a buffer used in its insertion order
Sorted_InsertionOrder(data) == data

\* sorted(data)
RECURSIVE Sorted(_)
Sorted(data) ==
    IF data = <<>> THEN <<>> ELSE Insert(Head(data), Sorted(Tail(data)))

\* sum(data)
RECURSIVE Sum(_)
Sum(data) == IF data = <<>> THEN 0 ELSE Head(data) + Sum(Tail(data))

\* statistics.mean(data) of a non-empty list
Mean(data) == Rat(Sum(data), Len(data))

\* benchmark_llm.py percentile(data, p): linear interpolation between the
\* order statistics around k = (n - 1) * (p / 100); index i of the code is
\* position i + 1 here
percentile(data, p) ==
    IF data = <<>> THEN <<0, 1>>
    ELSE LET sorted_data == Sorted(data)
             n == Len(sorted_data)
             f == ((n - 1) * p) \div 100
             c == IF f + 1 < n THEN f + 1 ELSE f
             frac == (n - 1) * p - 100 * f   \* (k - f) * 100
         IN  Rat(100 * sorted_data[f + 1]
                   + (sorted_data[c + 1] - sorted_data[f + 1]) * frac, 100)

\* benchmark_inference.py InferenceBenchmark.percentile(data, p): the sample
\* at index int(n * p / 100), capped at n - 1
InferenceBenchmark_percentile(data, p) ==
    IF data = <<>> THEN <<0, 1>>
    ELSE LET sorted_data == Sorted(data)
             index == (Len(sorted_data) * p) \div 100
         IN  Rat(sorted_data[Min(index, Len(sorted_data) - 1) + 1], 1)

\* locustfile.py MetricsCollector.get_percentile(values, percentile)
get_percentile(values, p) ==
    IF values = <<>> THEN <<0, 1>>
    ELSE LET sorted_values == Sorted(values)
             index == (Len(sorted_values) * p) \div 100
         IN  Rat(sorted_values[Min(index, Len(sorted_values) - 1) + 1], 1)

\* ---------------------------------------------------------- benchmark_llm.py
\* error_msg = None
NoError == ""

\* RequestResult of a request that succeeded; `failure` is history: the
\* request got a non-200 answer, timed out or raised
Succeeded(ttft_ms, tps) ==
    [st |-> "done", success |-> TRUE, ttft_ms |-> ttft_ms, tokens_generated |-> 1,
     tokens_per_second |-> tps, error |-> NoError, failure |-> FALSE]

\* RequestResult(success=False, ..., error=error_msg)
Failed(error_msg) ==
    [st |-> "done", success |-> FALSE, ttft_ms |-> 0, tokens_generated |-> 0,
     tokens_per_second |-> 0, error |-> error_msg, failure |-> TRUE]

\* _send_request after `except Exception as e: error_msg = str(e)`: the
\* failed result is returned under `if error_msg:`; with an empty text the
\* function goes on to the successful result, no chunk having been read
Raised(error_msg) ==
    IF error_msg # NoError
    THEN Failed(error_msg)
    ELSE [st |-> "done", success |-> TRUE, ttft_ms |-> 0, tokens_generated |-> 0,
          tokens_per_second |-> 0, error |-> NoError, failure |-> TRUE]

\* a request of the level that has not been answered: "queued" for a
\* connection of the TCPConnector, or "inflight"
Pending(st) ==
    [st |-> st, success |-> FALSE, ttft_ms |-> 0, tokens_generated |-> 0,
     tokens_per_second |-> 0, error |-> NoError, failure |-> FALSE]

\* [r.field for r in results], failed results included
FieldOfSuccessful_All(rs, field) == [i \in DOMAIN rs |-> rs[i][field]]

\* [r.field for r in results if r.success], in order
RECURSIVE FieldOfSuccessful(_, _)
FieldOfSuccessful(rs, field) ==
    IF rs = <<>> THEN <<>>
    ELSE (IF Head(rs).success THEN <<Head(rs)[field]>> ELSE <<>>)
             \o FieldOfSuccessful(Tail(rs), field)

\* min(values), max(values) of a non-empty list
ListMin(values) == CHOOSE x \in {values[i] : i \in DOMAIN values} :
                       \A i \in DOMAIN values : x <= values[i]
ListMax(values) == CHOOSE x \in {values[i] : i \in DOMAIN values} :
                       \A i \in DOMAIN values : x >= values[i]

\* LLMBenchmark._calculate_metrics(results, concurrency, duration); the
\* latency_* fields repeat the ttft_* expressions over total_latency_ms
calculate_metrics(rs, concurrency, duration) ==
    LET ttft_values == FieldOfSuccessful(rs, "ttft_ms")
        tps_values == FieldOfSuccessful(rs, "tokens_per_second")
        total_tokens == Sum(FieldOfSuccessful(rs, "tokens_generated"))
    IN  IF ttft_values = <<>>
        THEN [concurrency |-> concurrency, total_requests |-> Len(rs),
              successful_requests |-> 0, failed_requests |-> Len(rs),
              ttft_min |-> <<0, 1>>, ttft_max |-> <<0, 1>>, ttft_mean |-> <<0, 1>>,
              ttft_p50 |-> <<0, 1>>, ttft_p90 |-> <<0, 1>>, ttft_p99 |-> <<0, 1>>,
              tokens_per_second_mean |-> <<0, 1>>, total_throughput |-> <<0, 1>>]
        ELSE [concurrency |-> concurrency, total_requests |-> Len(rs),
              successful_requests |-> Len(ttft_values),
              failed_requests |-> Len(rs) - Len(ttft_values),
              ttft_min |-> Rat(ListMin(ttft_values), 1),
              ttft_max |-> Rat(ListMax(ttft_values), 1),
              ttft_mean |-> Mean(ttft_values),
              ttft_p50 |-> percentile(ttft_values, 50),
              ttft_p90 |-> percentile(ttft_values, 90),
              ttft_p99 |-> percentile(ttft_values, 99),
              tokens_per_second_mean |-> Mean(tps_values),
              total_throughput |-> IF duration > 0 THEN Rat(total_tokens, duration)
                                                   ELSE <<0, 1>>]

\* -------------------------------------------------- benchmark_inference.py
\* InferenceBenchmark.analyze_results(name, concurrent_users, results,
\* duration); the latency_* and tokens_per_second fields repeat the ttft_*
\* expressions over their own values
analyze_results(concurrent_users, rs, duration) ==
    LET ttft_values == FieldOfSuccessful(rs, "ttft_ms")
        successful == Len(ttft_values)
    IN  [concurrent_users |-> concurrent_users,
         total_requests |-> Len(rs),
         successful_requests |-> successful,
         failed_requests |-> Len(rs) - successful,
         ttft_p50_ms |-> InferenceBenchmark_percentile(ttft_values, 50),
         ttft_p90_ms |-> InferenceBenchmark_percentile(ttft_values, 90),
         ttft_p99_ms |-> InferenceBenchmark_percentile(ttft_values, 99),
         ttft_mean_ms |-> IF ttft_values # <<>> THEN Mean(ttft_values) ELSE <<0, 1>>,
         requests_per_second |-> IF duration > 0 THEN Rat(successful, duration)
                                                 ELSE <<0, 1>>]

\* the configs of run_suite: (users, requests per user), level by level
SuiteConfigs ==
    {[k \in DOMAIN ls |-> <<ls[k], r>>] : ls \in LevelLists, r \in 1..MaxRequests}

\* ----------------------------------------------------------------- tasks
IdleTask ==
    [pc |-> "idle", op |-> "none", sid |-> NoId, status |-> 0, adm |-> "none"]

\* a request that has been answered: the fields the response depends on
Answered(op, status, adm) ==
    [pc |-> "done", op |-> op, sid |-> NoId, status |-> status, adm |-> adm]

\* requests are numbered in their order of arrival
Arrives(t) ==
    /\ task[t].pc = "idle"
    /\ \A u \in Tasks : u < t => task[u].pc # "idle"

NoSweep == [removed |-> FALSE, kept_at_limit |-> FALSE]

\* no get_gpu_stats call has been made yet
NoPoll == [by |-> "none", reading |-> <<>>, stats |-> <<>>]

\* benchmark_inference.py has not been started
NoSuite ==
    [pc |-> "idle", configs |-> <<>>, level |-> 0, results |-> <<>>,
     exit_code |-> NoExit]

\* benchmark_llm.py has not been started
NoLLM ==
    [pc |-> "idle", concurrency_levels |-> <<>>, requests_per_level |-> 0,
     level |-> 0, requests |-> <<>>, all_results |-> <<>>, exit_code |-> NoExit]

\* run_load_test has not been called
NoLoadTest ==
    [pc |-> "idle", target_sessions |-> 0, requests_per_session |-> 0,
     attempts |-> 0, sessions_created |-> 0, sessions_rejected |-> 0,
     session_ids |-> <<>>, tasks |-> <<>>, latencies |-> <<>>, errors |-> 0]

\* MetricsCollector(): no value recorded, summary() not called yet; the
\* tps_values and latency_values lists are filled and summarised by the same
\* statements as ttft_values
NoSummary == [total_requests |-> -1]
NoCollector == [ttft_values |-> <<>>, summary |-> NoSummary]

\* MemoryProfiler(host): profile_sessions not called yet; `created` and
\* `closed` are history: the ids obtained and the ids a DELETE was sent for
NoProfiler ==
    [pc |-> "idle", max_sessions |-> 0, i |-> 0, profiles |-> <<>>,
     active_sessions |-> <<>>, created |-> <<>>, closed |-> <<>>, failed |-> 0]

Init ==
    /\ max_sessions \in 1..MaxCapacity
    /\ loaded \in BOOLEAN
    /\ sessions = <<>>
    /\ lock = NoHolder
    /\ ACTIVE_SESSIONS = 0
    /\ initialized \in BOOLEAN
    /\ thermal_state = IF initialized THEN [i \in Gpus |-> InitialThermal] ELSE <<>>
    /\ now = 0
    /\ task = [t \in Tasks |-> IdleTask]
    /\ sweeper = "sleep"
    /\ released = {}
    /\ lat_sum = [i \in Ids |-> 0]
    /\ last_sweep = NoSweep
    /\ poll = NoPoll
    /\ monitor = [snapshots |-> <<>>, alerts |-> <<>>, sample_count |-> 0]
    /\ users = <<>>
    /\ requests_per_user = 0
    /\ results = <<>>
    /\ suite = NoSuite
    /\ llm = NoLLM
    /\ loadtest = NoLoadTest
    /\ collector = NoCollector
    /\ profiler = NoProfiler

\* POST /v1/sessions reaches `async with self._lock` of create_session
create_session_enter(t) ==
    /\ Arrives(t)
    /\ lock = NoHolder
    /\ lock' = t
    /\ task' = [task EXCEPT ![t].pc = "create_cs", ![t].op = "create"]
    /\ UNCHANGED <<conf_vars, tool_vars, poll, monitor, bench_vars,
                   sessions, ACTIVE_SESSIONS, gpu_vars, now, sweeper,
                   released, lat_sum, last_sweep>>

\* POST /v1/chat without session_id reaches create_session
chat_new_enter(t) ==
    /\ Arrives(t)
    /\ lock = NoHolder
    /\ lock' = t
    /\ task' = [task EXCEPT ![t].pc = "create_cs", ![t].op = "chat_new"]
    /\ UNCHANGED <<conf_vars, tool_vars, poll, monitor, bench_vars,
                   sessions, ACTIVE_SESSIONS, gpu_vars, now, sweeper,
                   released, lat_sum, last_sweep>>

\* create_session, rejected: HTTPException(503); the lock is released
create_session_reject(t) ==
    /\ task[t].pc = "create_cs"
    /\ ~Admits(sessions, max_sessions)
    /\ lock' = NoHolder
    /\ task' = [task EXCEPT ![t] = Answered(task[t].op, 503, "rejected")]
    /\ UNCHANGED <<conf_vars, tool_vars, poll, monitor, bench_vars,
                   sessions, ACTIVE_SESSIONS, gpu_vars, now, sweeper,
                   released, lat_sum, last_sweep>>

\* create_session, admitted: a random 8-hex-digit id is registered
create_session_admit(t, id) ==
    /\ task[t].pc = "create_cs"
    /\ Admits(sessions, max_sessions)
    /\ sessions' = Register(sessions, id, now)
    /\ ACTIVE_SESSIONS' = Cardinality(DOMAIN sessions')
    /\ lat_sum' = [lat_sum EXCEPT ![id] = 0]
    /\ lock' = NoHolder
    /\ task' = [task EXCEPT
                  ![t] = IF task[t].op = "chat_new"
                         THEN [task[t] EXCEPT !.pc = "executing", !.sid = id,
                                              !.adm = "ok"]
                         ELSE Answered("create", 200, "ok")]
    /\ UNCHANGED <<conf_vars, tool_vars, poll, monitor, bench_vars,
                   gpu_vars, now, sweeper, released, last_sweep>>

\* POST /v1/chat with session_id: get_session
chat_lookup(t, id) ==
    /\ Arrives(t)
    /\ task' = [task EXCEPT
                  ![t] = IF Found(sessions, id)
                         THEN [task[t] EXCEPT !.pc = "executing", !.op = "chat",
                                              !.sid = id]
                         ELSE Answered("chat", 404, "none")]
    /\ UNCHANGED <<conf_vars, tool_vars, poll, monitor, bench_vars,
                   sessions, lock, ACTIVE_SESSIONS, gpu_vars, now,
                   sweeper, released, lat_sum, last_sweep>>

\* chat recording the request in the session although generate raised
generate_fail_Counted(t) ==
    /\ task[t].pc = "executing"
    /\ ~loaded
    /\ sessions' = UpdateRegistry(sessions, task[t].sid, 0, 0, now)
    /\ task' = [task EXCEPT ![t] = Answered(task[t].op, 500, task[t].adm)]
    /\ UNCHANGED <<conf_vars, tool_vars, poll, monitor, bench_vars,
                   lock, ACTIVE_SESSIONS, gpu_vars, now,
                   sweeper, released, lat_sum, last_sweep>>

\* chat: inference_engine.generate raises (model not loaded) -> 500
generate_fail(t) ==
    /\ task[t].pc = "executing"
    /\ ~loaded
    /\ task' = [task EXCEPT ![t] = Answered(task[t].op, 500, task[t].adm)]
    /\ UNCHANGED <<conf_vars, tool_vars, poll, monitor, bench_vars,
                   sessions, lock, ACTIVE_SESSIONS, gpu_vars, now,
                   sweeper, released, lat_sum, last_sweep>>

\* chat: generate returned; update_session reaches `async with self._lock`
update_session_enter(t) ==
    /\ task[t].pc = "executing"
    /\ loaded
    /\ lock = NoHolder
    /\ lock' = t
    /\ task' = [task EXCEPT ![t].pc = "update_cs"]
    /\ UNCHANGED <<conf_vars, tool_vars, poll, monitor, bench_vars,
                   sessions, ACTIVE_SESSIONS, gpu_vars, now, sweeper,
                   released, lat_sum, last_sweep>>

\* update_session body, then chat returns the ChatResponse
update_session_body(t, tokens, latency_ms) ==
    /\ task[t].pc = "update_cs"
    /\ sessions' = UpdateRegistry(sessions, task[t].sid, tokens, latency_ms, now)
    /\ lat_sum' = IF task[t].sid \in DOMAIN sessions
                  THEN [lat_sum EXCEPT ![task[t].sid] = @ + latency_ms]
                  ELSE lat_sum
    /\ lock' = NoHolder
    /\ task' = [task EXCEPT ![t] = Answered(task[t].op, 200, task[t].adm)]
    /\ UNCHANGED <<conf_vars, tool_vars, poll, monitor, bench_vars,
                   ACTIVE_SESSIONS, gpu_vars, now, sweeper, released,
                   last_sweep>>

\* close_session entering its body without waiting for the lock
close_session_enter_unlocked(t, id) ==
    /\ Arrives(t)
    /\ lock' = t
    /\ task' = [task EXCEPT ![t].pc = "close_cs", ![t].op = "close", ![t].sid = id]
    /\ UNCHANGED <<conf_vars, tool_vars, poll, monitor, bench_vars,
                   sessions, ACTIVE_SESSIONS, gpu_vars, now, sweeper,
                   released, lat_sum, last_sweep>>

\* DELETE /v1/sessions/{id} reaches `async with self._lock` of close_session
close_session_enter(t, id) ==
    /\ Arrives(t)
    /\ lock = NoHolder
    /\ lock' = t
    /\ task' = [task EXCEPT ![t].pc = "close_cs", ![t].op = "close", ![t].sid = id]
    /\ UNCHANGED <<conf_vars, tool_vars, poll, monitor, bench_vars,
                   sessions, ACTIVE_SESSIONS, gpu_vars, now, sweeper,
                   released, lat_sum, last_sweep>>

\* close_session deleting the session without setting the gauge
close_session_body_NoGauge(t) ==
    /\ task[t].pc = "close_cs"
    /\ sessions' = CloseRegistry(sessions, task[t].sid)
    /\ released' = released \cup (DOMAIN sessions \ DOMAIN sessions')
    /\ lock' = NoHolder
    /\ task' = [task EXCEPT
                  ![t] = Answered("close", CloseStatus(sessions, task[t].sid), "none")]
    /\ UNCHANGED <<conf_vars, tool_vars, poll, monitor, bench_vars, ACTIVE_SESSIONS,
                   gpu_vars, now, sweeper, lat_sum, last_sweep>>

\* close_session body, then the endpoint returns {"status": "closed"}
close_session_body(t) ==
    /\ task[t].pc = "close_cs"
    /\ sessions' = CloseRegistry(sessions, task[t].sid)
    /\ ACTIVE_SESSIONS' = IF task[t].sid \in DOMAIN sessions
                          THEN Cardinality(DOMAIN sessions')
                          ELSE ACTIVE_SESSIONS
    /\ released' = released \cup (DOMAIN sessions \ DOMAIN sessions')
    /\ lock' = NoHolder
    /\ task' = [task EXCEPT
                  ![t] = Answered("close", CloseStatus(sessions, task[t].sid), "none")]
    /\ UNCHANGED <<conf_vars, tool_vars, poll, monitor, bench_vars,
                   gpu_vars, now, sweeper, lat_sum, last_sweep>>

\* cleanup_loop: the sleep is over, cleanup_stale_sessions takes the lock
cleanup_enter ==
    /\ sweeper = "sleep"
    /\ lock = NoHolder
    /\ lock' = Sweeper
    /\ sweeper' = "cs"
    /\ UNCHANGED <<conf_vars, tool_vars, poll, monitor, bench_vars,
                   sessions, ACTIVE_SESSIONS, gpu_vars, now, task,
                   released, lat_sum, last_sweep>>

\* cleanup_stale_sessions body; the loop goes back to sleep
cleanup_stale_sessions(max_idle_seconds) ==
    /\ sweeper = "cs"
    /\ sessions' = SweepRegistry(sessions, now, max_idle_seconds)
    /\ ACTIVE_SESSIONS' = IF StaleIds(sessions, now, max_idle_seconds) # {}
                          THEN Cardinality(DOMAIN sessions')
                          ELSE ACTIVE_SESSIONS
    /\ released' = released \cup (DOMAIN sessions \ DOMAIN sessions')
    /\ lock' = NoHolder
    /\ sweeper' = "sleep"
    /\ last_sweep' =
          [removed |-> DOMAIN sessions' # DOMAIN sessions,
           kept_at_limit |->
               \E sid \in DOMAIN sessions' :
                   /\ max_idle_seconds > 0
                   /\ now - sessions[sid].last_request = max_idle_seconds]
    /\ UNCHANGED <<conf_vars, tool_vars, poll, monitor, bench_vars,
                   gpu_vars, now, task, lat_sum>>

\* GPUMonitor.get_gpu_stats: the thermal state after a poll; reading[i] is the
\* temperature of gpu i, or ReadFailed when nvmlDeviceGetMemoryInfo or
\* nvmlDeviceGetUtilizationRates raised (the device is skipped)
PollThermal(ts, reading) ==
    [i \in DOMAIN ts |-> IF reading[i] = ReadFailed THEN ts[i] ELSE Classify(reading[i])]

\* a poll that drops every session when a gpu turns critical
get_gpu_stats_Evicting(caller, reading) ==
    /\ thermal_state' = IF initialized THEN PollThermal(thermal_state, reading)
                                        ELSE thermal_state
    /\ poll' = IF initialized
                  THEN [by |-> caller, reading |-> reading,
                        stats |-> StatsLoop(0, reading)]
                  ELSE [by |-> caller, reading |-> <<>>, stats |-> <<>>]
    /\ sessions' = IF \E i \in DOMAIN thermal_state' : thermal_state'[i].is_critical
                      THEN <<>> ELSE sessions
    /\ UNCHANGED <<conf_vars, tool_vars, lock, ACTIVE_SESSIONS, initialized, now,
                   task, sweeper, released, lat_sum, last_sweep, monitor,
                   bench_vars>>

\* handler `caller` calls gpu_monitor.get_gpu_stats()
\* (/health, /v1/sku, /v1/gpu/stats, /v1/gpu/thermal, /metrics); nothing is
\* read when NVML was not initialized
get_gpu_stats(caller, reading) ==
    /\ thermal_state' = IF initialized THEN PollThermal(thermal_state, reading)
                                        ELSE thermal_state
    /\ poll' = IF initialized
                  THEN [by |-> caller, reading |-> reading,
                        stats |-> StatsLoop(0, reading)]
                  ELSE [by |-> caller, reading |-> <<>>, stats |-> <<>>]
    /\ UNCHANGED <<conf_vars, tool_vars, sessions, lock, ACTIVE_SESSIONS, initialized, now,
                   task, sweeper, released, lat_sum, last_sweep, monitor,
                   bench_vars>>

\* one iteration of the loop of gpu-metrics.py main: get_snapshot,
\* print_live_metrics, sample_count += 1
monitor_sample(reading) ==
    /\ monitor.sample_count < MaxSamples
    /\ monitor' =
           LET snapshots == SnapshotLoop(0, reading)
           IN  [snapshots |-> snapshots,
                alerts |-> [k \in DOMAIN snapshots |->
                               MemAlert(snapshots[k].memory_percent)],
                sample_count |-> monitor.sample_count + 1]
    /\ UNCHANGED <<conf_vars, tool_vars, sessions, lock, ACTIVE_SESSIONS, gpu_vars, now, task,
                   sweeper, released, lat_sum, last_sweep, poll, bench_vars>>

\* -------------------------------------------- benchmark_inference.py
\* a user_session coroutine before its first request; status is resp.status
\* of its POST /v1/sessions (0: none)
NewUser ==
    [pc |-> "create", status |-> 0, session_id |-> NoId, chat_sid |-> NoId,
     user_results |-> <<>>]

\* single_request: the dict returned for a 200 answer
Success(ttft_ms) == [success |-> TRUE, ttft_ms |-> ttft_ms]

\* single_request: the dict returned for another status or an exception
Failure == [success |-> FALSE, ttft_ms |-> 0]

\* user_session: user_results.append(result)
Sample(user, result) ==
    [user EXCEPT !.pc = "loop", !.chat_sid = NoId,
                 !.user_results = Append(user.user_results, result)]

\* users are numbered in the order their POST /v1/sessions is answered
Creates(u) ==
    /\ users[u].pc = "create"
    /\ \A v \in DOMAIN users : v < u => users[v].pc # "create"

\* run_concurrent_test(num_users, requests_per_user): the user_session
\* coroutines are created and gathered
run_concurrent_test(num_users, r) ==
    /\ users = <<>>
    /\ results = <<>>
    /\ users' = [u \in 1..num_users |-> NewUser]
    /\ requests_per_user' = r
    /\ UNCHANGED <<conf_vars, tool_vars, sessions, lock, ACTIVE_SESSIONS, gpu_vars, now, task,
                   sweeper, released, lat_sum, last_sweep, poll, monitor, results>>

\* user_session: POST /v1/sessions answered 200, the server registered `id`
user_create_ok(u, id) ==
    /\ Creates(u)
    /\ Admits(sessions, max_sessions)
    /\ sessions' = Register(sessions, id, now)
    /\ ACTIVE_SESSIONS' = Cardinality(DOMAIN sessions')
    /\ lat_sum' = [lat_sum EXCEPT ![id] = 0]
    /\ users' = [users EXCEPT ![u].pc = "loop", ![u].status = 200,
                              ![u].session_id = id]
    /\ UNCHANGED <<conf_vars, tool_vars, lock, gpu_vars, now, task, sweeper, released,
                   last_sweep, poll, monitor, requests_per_user, results>>

\* user_session: POST /v1/sessions answered 503: session_id = None
user_create_rejected(u) ==
    /\ Creates(u)
    /\ ~Admits(sessions, max_sessions)
    /\ users' = [users EXCEPT ![u].pc = "loop", ![u].status = 503,
                              ![u].session_id = NoId]
    /\ UNCHANGED <<conf_vars, tool_vars, sessions, lock, ACTIVE_SESSIONS, gpu_vars, now, task,
                   sweeper, released, lat_sum, last_sweep, poll, monitor,
                   requests_per_user, results>>

\* user_session: the POST raised (bare except): session_id = None
user_create_error(u) ==
    /\ Creates(u)
    /\ users' = [users EXCEPT ![u].pc = "loop", ![u].session_id = NoId]
    /\ UNCHANGED <<conf_vars, tool_vars, sessions, lock, ACTIVE_SESSIONS, gpu_vars, now, task,
                   sweeper, released, lat_sum, last_sweep, poll, monitor,
                   requests_per_user, results>>

\* single_request with a session_id: chat calls get_session, which raises 404
\* for an id that is not registered
user_chat_lookup(u) ==
    /\ users[u].pc = "loop"
    /\ Len(users[u].user_results) < requests_per_user
    /\ users[u].session_id # NoId
    /\ users' = [users EXCEPT
                   ![u] = IF Found(sessions, users[u].session_id)
                          THEN [users[u] EXCEPT !.pc = "inflight",
                                                !.chat_sid = users[u].session_id]
                          ELSE Sample(users[u], Failure)]
    /\ UNCHANGED <<conf_vars, tool_vars, sessions, lock, ACTIVE_SESSIONS, gpu_vars, now, task,
                   sweeper, released, lat_sum, last_sweep, poll, monitor,
                   requests_per_user, results>>

\* single_request with session_id None: the payload has no session_id, so
\* chat calls create_session, which registers `id` or raises 503
user_chat_new(u, id) ==
    /\ users[u].pc = "loop"
    /\ Len(users[u].user_results) < requests_per_user
    /\ users[u].session_id = NoId
    /\ IF Admits(sessions, max_sessions)
       THEN /\ sessions' = Register(sessions, id, now)
            /\ ACTIVE_SESSIONS' = Cardinality(DOMAIN sessions')
            /\ lat_sum' = [lat_sum EXCEPT ![id] = 0]
            /\ users' = [users EXCEPT ![u].pc = "inflight", ![u].chat_sid = id]
       ELSE /\ users' = [users EXCEPT ![u] = Sample(users[u], Failure)]
            /\ UNCHANGED <<sessions, ACTIVE_SESSIONS, lat_sum>>
    /\ UNCHANGED <<conf_vars, tool_vars, lock, gpu_vars, now, task, sweeper, released,
                   last_sweep, poll, monitor, requests_per_user, results>>

\* single_request: chat answers after generate and update_session (200), or
\* 500 when generate raises; the result is appended to user_results
user_chat_reply(u, tokens, latency_ms, ttft_ms) ==
    /\ users[u].pc = "inflight"
    /\ sessions' = IF loaded
                      THEN UpdateRegistry(sessions, users[u].chat_sid, tokens,
                                          latency_ms, now)
                      ELSE sessions
    /\ lat_sum' = IF loaded /\ users[u].chat_sid \in DOMAIN sessions
                  THEN [lat_sum EXCEPT ![users[u].chat_sid] = @ + latency_ms]
                  ELSE lat_sum
    /\ users' = [users EXCEPT
                   ![u] = Sample(users[u], IF loaded THEN Success(ttft_ms)
                                                     ELSE Failure)]
    /\ UNCHANGED <<conf_vars, tool_vars, lock, ACTIVE_SESSIONS, gpu_vars, now, task, sweeper,
                   released, last_sweep, poll, monitor, requests_per_user, results>>

\* user_session after its loop: DELETE /v1/sessions/{session_id} if it has a
\* session_id, then return user_results
user_close(u) ==
    /\ users[u].pc = "loop"
    /\ Len(users[u].user_results) = requests_per_user
    /\ sessions' = IF users[u].session_id # NoId
                      THEN CloseRegistry(sessions, users[u].session_id)
                      ELSE sessions
    /\ ACTIVE_SESSIONS' = IF sessions' # sessions
                          THEN Cardinality(DOMAIN sessions')
                          ELSE ACTIVE_SESSIONS
    /\ released' = released \cup (DOMAIN sessions \ DOMAIN sessions')
    /\ users' = [users EXCEPT ![u].pc = "done"]
    /\ UNCHANGED <<conf_vars, tool_vars, lock, gpu_vars, now, task, sweeper, lat_sum,
                   last_sweep, poll, monitor, requests_per_user, results>>

\* results.extend(user_result) for each user, in order
RECURSIVE Flatten(_, _)
Flatten(us, u) ==
    IF u > Len(us) THEN <<>> ELSE us[u].user_results \o Flatten(us, u + 1)

\* run_concurrent_test flattening without waiting for the user_sessions
gather_Early ==
    /\ users # <<>>
    /\ results = <<>>
    /\ \E u \in DOMAIN users : users[u].user_results # <<>>
    /\ results' = Flatten(users, 1)
    /\ UNCHANGED <<conf_vars, tool_vars, sessions, lock, ACTIVE_SESSIONS, gpu_vars,
                   now, task, sweeper, released, lat_sum, last_sweep, poll, monitor,
                   users, requests_per_user>>

\* run_concurrent_test after asyncio.gather: the results are flattened
gather ==
    /\ users # <<>>
    /\ results = <<>>
    /\ \A u \in DOMAIN users : users[u].pc = "done"
    /\ results' = Flatten(users, 1)
    /\ UNCHANGED <<conf_vars, tool_vars, sessions, lock, ACTIVE_SESSIONS, gpu_vars, now, task,
                   sweeper, released, lat_sum, last_sweep, poll, monitor, users,
                   requests_per_user>>

\* ------------------------------------------- benchmark_inference.py main
\* main: the arguments are parsed; GET /health is sent
inference_main(configs) ==
    /\ suite.pc = "idle"
    /\ suite' = [suite EXCEPT !.pc = "health", !.configs = configs]
    /\ UNCHANGED <<conf_vars, sessions, lock, ACTIVE_SESSIONS, gpu_vars, now, task,
                   sweeper, released, lat_sum, last_sweep, poll, monitor, bench_vars,
                   llm, loadtest, collector, profiler>>

\* the server handles GET /health: health_check calls get_gpu_stats
health_check(reading) ==
    /\ suite.pc = "health"
    /\ poll.by = "none"
    /\ get_gpu_stats("health_check", reading)

\* main: resp.status == 200: run_suite is entered
health_ok ==
    /\ suite.pc = "health"
    /\ poll.by = "health_check"
    /\ suite' = [suite EXCEPT !.pc = "levels", !.level = 1]
    /\ UNCHANGED <<conf_vars, sessions, lock, ACTIVE_SESSIONS, gpu_vars, now, task,
                   sweeper, released, lat_sum, last_sweep, poll, monitor, bench_vars,
                   llm, loadtest, collector, profiler>>

\* main: resp.status != 200 or the GET raised: a message is printed and main
\* returns, so asyncio.run returns and the process ends normally
health_failed ==
    /\ suite.pc = "health"
    /\ suite' = [suite EXCEPT !.pc = "done", !.exit_code = 0]
    /\ UNCHANGED <<conf_vars, sessions, lock, ACTIVE_SESSIONS, gpu_vars, now, task,
                   sweeper, released, lat_sum, last_sweep, poll, monitor, bench_vars,
                   llm, loadtest, collector, profiler>>

\* run_suite, one iteration: run_concurrent_test(users, requests)
suite_level ==
    /\ suite.pc = "levels"
    /\ suite.level <= Len(suite.configs)
    /\ run_concurrent_test(suite.configs[suite.level][1],
                           suite.configs[suite.level][2])

\* run_suite: run_concurrent_test has returned raw_results; analyze_results,
\* results.append(result); the locals of the call are gone
append_result(duration) ==
    /\ suite.pc = "levels"
    /\ results # <<>>
    /\ suite' = [suite EXCEPT
                    !.results = Append(@, analyze_results(Len(users), results,
                                                          duration)),
                    !.level = @ + 1]
    /\ users' = <<>>
    /\ requests_per_user' = 0
    /\ results' = <<>>
    /\ UNCHANGED <<conf_vars, sessions, lock, ACTIVE_SESSIONS, gpu_vars, now, task,
                   sweeper, released, lat_sum, last_sweep, poll, monitor,
                   llm, loadtest, collector, profiler>>

\* run_suite returns the suite; main returns
suite_exit ==
    /\ suite.pc = "levels"
    /\ suite.level > Len(suite.configs)
    /\ suite' = [suite EXCEPT !.pc = "done", !.exit_code = 0]
    /\ UNCHANGED <<conf_vars, sessions, lock, ACTIVE_SESSIONS, gpu_vars, now, task,
                   sweeper, released, lat_sum, last_sweep, poll, monitor, bench_vars,
                   llm, loadtest, collector, profiler>>

\* ---------------------------------------------------------- benchmark_llm.py
\* main: the arguments are parsed and run_benchmark entered
run_benchmark(concurrency_levels, requests_per_level) ==
    /\ llm.pc = "idle"
    /\ llm' = [llm EXCEPT !.pc = "loop", !.concurrency_levels = concurrency_levels,
                          !.requests_per_level = requests_per_level, !.level = 1]
    /\ UNCHANGED <<conf_vars, sessions, lock, ACTIVE_SESSIONS, gpu_vars, now, task,
                   sweeper, released, lat_sum, last_sweep, poll, monitor, bench_vars,
                   suite, loadtest, collector, profiler>>

\* run_benchmark, one iteration: _run_concurrent_requests creates one
\* _send_request task per prompt and gathers them
run_concurrent_requests ==
    /\ llm.pc = "loop"
    /\ llm.level <= Len(llm.concurrency_levels)
    /\ llm.requests = <<>>
    /\ llm' = [llm EXCEPT
                  !.requests = [i \in 1..llm.requests_per_level |-> Pending("queued")]]
    /\ UNCHANGED <<conf_vars, sessions, lock, ACTIVE_SESSIONS, gpu_vars, now, task,
                   sweeper, released, lat_sum, last_sweep, poll, monitor, bench_vars,
                   suite, loadtest, collector, profiler>>

\* the requests of the level that hold a connection
InFlight == {i \in DOMAIN llm.requests : llm.requests[i].st = "inflight"}

\* _send_request: session.post obtains one of the `concurrency` connections
send_request(i) ==
    /\ llm.requests[i].st = "queued"
    /\ Cardinality(InFlight) < llm.concurrency_levels[llm.level]
    /\ llm' = [llm EXCEPT !.requests[i] = Pending("inflight")]
    /\ UNCHANGED <<conf_vars, sessions, lock, ACTIVE_SESSIONS, gpu_vars, now, task,
                   sweeper, released, lat_sum, last_sweep, poll, monitor, bench_vars,
                   suite, loadtest, collector, profiler>>

\* _send_request: the response has been read; a RequestResult is returned
send_request_reply(i, result) ==
    /\ llm.requests[i].st = "inflight"
    /\ llm' = [llm EXCEPT !.requests[i] = result]
    /\ UNCHANGED <<conf_vars, sessions, lock, ACTIVE_SESSIONS, gpu_vars, now, task,
                   sweeper, released, lat_sum, last_sweep, poll, monitor, bench_vars,
                   suite, loadtest, collector, profiler>>

\* _send_request: session.post or the read of the stream raises an
\* exception whose str() is error_msg
send_request_raises(i, error_msg) ==
    /\ llm.requests[i].st = "inflight"
    /\ llm' = [llm EXCEPT !.requests[i] = Raised(error_msg)]
    /\ UNCHANGED <<conf_vars, sessions, lock, ACTIVE_SESSIONS, gpu_vars, now, task,
                   sweeper, released, lat_sum, last_sweep, poll, monitor, bench_vars,
                   suite, loadtest, collector, profiler>>

\* _send_request: ClientTimeout(total=120) expires while the request waits
\* for a connection
send_request_timeout(i) ==
    /\ llm.requests[i].st = "queued"
    /\ llm' = [llm EXCEPT !.requests[i] = Failed("Request timeout")]
    /\ UNCHANGED <<conf_vars, sessions, lock, ACTIVE_SESSIONS, gpu_vars, now, task,
                   sweeper, released, lat_sum, last_sweep, poll, monitor, bench_vars,
                   suite, loadtest, collector, profiler>>

\* run_benchmark: the gather has returned; _calculate_metrics, append
append_metrics(duration) ==
    /\ llm.pc = "loop"
    /\ llm.requests # <<>>
    /\ \A i \in DOMAIN llm.requests : llm.requests[i].st = "done"
    /\ llm' = [llm EXCEPT
                  !.all_results =
                      Append(@, calculate_metrics(llm.requests,
                                                  llm.concurrency_levels[llm.level],
                                                  duration)),
                  !.requests = <<>>,
                  !.level = @ + 1]
    /\ UNCHANGED <<conf_vars, sessions, lock, ACTIVE_SESSIONS, gpu_vars, now, task,
                   sweeper, released, lat_sum, last_sweep, poll, monitor, bench_vars,
                   suite, loadtest, collector, profiler>>

\* run_benchmark returns all_results; main prints and saves them and returns
llm_exit ==
    /\ llm.pc = "loop"
    /\ llm.level > Len(llm.concurrency_levels)
    /\ llm' = [llm EXCEPT !.pc = "done", !.exit_code = 0]
    /\ UNCHANGED <<conf_vars, sessions, lock, ACTIVE_SESSIONS, gpu_vars, now, task,
                   sweeper, released, lat_sum, last_sweep, poll, monitor, bench_vars,
                   suite, loadtest, collector, profiler>>

\* -------------------------------------------- load-test-comparison.py
\* run_load_test(sku_name, base_url, target_sessions, requests_per_session)
run_load_test(target_sessions, requests_per_session) ==
    /\ loadtest.pc = "idle"
    /\ loadtest' = [loadtest EXCEPT !.pc = "phase1",
                                    !.target_sessions = target_sessions,
                                    !.requests_per_session = requests_per_session]
    /\ UNCHANGED <<conf_vars, sessions, lock, ACTIVE_SESSIONS, gpu_vars, now, task,
                   sweeper, released, lat_sum, last_sweep, poll, monitor,
                   bench_vars, suite, llm, collector, profiler>>

\* phase 1: create_session answered 200, the server registered `id`
loadtest_create_ok(id) ==
    /\ loadtest.pc = "phase1"
    /\ loadtest.attempts < loadtest.target_sessions
    /\ Admits(sessions, max_sessions)
    /\ sessions' = Register(sessions, id, now)
    /\ ACTIVE_SESSIONS' = Cardinality(DOMAIN sessions')
    /\ lat_sum' = [lat_sum EXCEPT ![id] = 0]
    /\ loadtest' = [loadtest EXCEPT
                       !.attempts = @ + 1,
                       !.sessions_created = @ + 1,
                       !.session_ids = Append(@, id)]
    /\ UNCHANGED <<conf_vars, lock, gpu_vars, now, task, sweeper, released,
                   last_sweep, poll, monitor, bench_vars, suite, llm, collector,
                   profiler>>

\* phase 1: create_session answered 503
loadtest_create_rejected ==
    /\ loadtest.pc = "phase1"
    /\ loadtest.attempts < loadtest.target_sessions
    /\ ~Admits(sessions, max_sessions)
    /\ loadtest' = [loadtest EXCEPT !.attempts = @ + 1,
                                    !.sessions_rejected = @ + 1]
    /\ UNCHANGED <<conf_vars, sessions, lock, ACTIVE_SESSIONS, gpu_vars, now, task,
                   sweeper, released, lat_sum, last_sweep, poll, monitor,
                   bench_vars, suite, llm, collector, profiler>>

\* the tasks list of phase 2: requests_per_session send_inference coroutines
\* for each session id, in the order of the two nested loops
LoadTestTasks(session_ids, requests_per_session) ==
    [k \in 1..(Len(session_ids) * requests_per_session) |->
        [session_id |-> session_ids[((k - 1) \div requests_per_session) + 1],
         st |-> "pending"]]

\* phase 2: `if session_ids:` all the coroutines are handed to one
\* asyncio.gather; without a session the function goes on to its statistics
loadtest_phase2 ==
    /\ loadtest.pc = "phase1"
    /\ loadtest.attempts = loadtest.target_sessions
    /\ loadtest' = IF loadtest.session_ids # <<>>
                   THEN [loadtest EXCEPT
                           !.pc = "gather",
                           !.tasks = LoadTestTasks(loadtest.session_ids,
                                                   loadtest.requests_per_session)]
                   ELSE [loadtest EXCEPT !.pc = "done"]
    /\ UNCHANGED <<conf_vars, sessions, lock, ACTIVE_SESSIONS, gpu_vars, now, task,
                   sweeper, released, lat_sum, last_sweep, poll, monitor,
                   bench_vars, suite, llm, collector, profiler>>

\* send_inference: the gathered coroutines post /v1/chat in the order they
\* were created; chat answers 404 at once for an id that is not registered
send_inference(i) ==
    /\ loadtest.pc = "gather"
    /\ loadtest.tasks[i].st = "pending"
    /\ \A j \in DOMAIN loadtest.tasks : j < i => loadtest.tasks[j].st # "pending"
    /\ loadtest' = [loadtest EXCEPT
                       !.tasks[i].st = IF Found(sessions, loadtest.tasks[i].session_id)
                                       THEN "inflight" ELSE "fail"]
    /\ UNCHANGED <<conf_vars, sessions, lock, ACTIVE_SESSIONS, gpu_vars, now, task,
                   sweeper, released, lat_sum, last_sweep, poll, monitor,
                   bench_vars, suite, llm, collector, profiler>>

\* send_inference: chat answers after generate and update_session (200), or
\* 500 when generate raises
send_inference_reply(i, tokens, latency_ms) ==
    /\ loadtest.pc = "gather"
    /\ loadtest.tasks[i].st = "inflight"
    /\ sessions' = IF loaded
                      THEN UpdateRegistry(sessions, loadtest.tasks[i].session_id,
                                          tokens, latency_ms, now)
                      ELSE sessions
    /\ lat_sum' = IF loaded /\ loadtest.tasks[i].session_id \in DOMAIN sessions
                  THEN [lat_sum EXCEPT ![loadtest.tasks[i].session_id] = @ + latency_ms]
                  ELSE lat_sum
    /\ loadtest' = [loadtest EXCEPT !.tasks[i].st = IF loaded THEN "ok" ELSE "fail"]
    /\ UNCHANGED <<conf_vars, lock, ACTIVE_SESSIONS, gpu_vars, now, task, sweeper,
                   released, last_sweep, poll, monitor, bench_vars, suite, llm,
                   collector, profiler>>

\* the latency_ms of the successful results, in task order
RECURSIVE LoadTestLatencies(_, _, _)
LoadTestLatencies(tasks, k, latency_ms) ==
    IF k > Len(tasks) THEN <<>>
    ELSE (IF tasks[k].st = "ok" THEN <<latency_ms>> ELSE <<>>)
         \o LoadTestLatencies(tasks, k + 1, latency_ms)

\* after asyncio.gather: latencies and errors are collected; the function
\* returns its TestResult without closing any session
loadtest_collect(latency_ms) ==
    /\ loadtest.pc = "gather"
    /\ \A i \in DOMAIN loadtest.tasks : loadtest.tasks[i].st \in {"ok", "fail"}
    /\ loadtest' = [loadtest EXCEPT
                       !.pc = "done",
                       !.latencies = LoadTestLatencies(loadtest.tasks, 1, latency_ms),
                       !.errors = Cardinality({i \in DOMAIN loadtest.tasks :
                                                  loadtest.tasks[i].st = "fail"})]
    /\ UNCHANGED <<conf_vars, sessions, lock, ACTIVE_SESSIONS, gpu_vars, now, task,
                   sweeper, released, lat_sum, last_sweep, poll, monitor,
                   bench_vars, suite, llm, collector, profiler>>

\* ------------------------------------------------------- locustfile.py
\* MetricsCollector.record(ttft_ms, tps, latency_ms)
record(ttft_ms) ==
    /\ Len(collector.ttft_values) < MaxBuffer
    /\ collector' = [collector EXCEPT !.ttft_values = Append(@, ttft_ms)]
    /\ UNCHANGED <<conf_vars, sessions, lock, ACTIVE_SESSIONS, gpu_vars, now, task,
                   sweeper, released, lat_sum, last_sweep, poll, monitor,
                   bench_vars, suite, llm, loadtest, profiler>>

\* MetricsCollector.summary(): the "ttft" entry and total_requests
summary ==
    /\ collector' =
          [collector EXCEPT
             !.summary =
                 [p50 |-> get_percentile(collector.ttft_values, 50),
                  p90 |-> get_percentile(collector.ttft_values, 90),
                  p99 |-> get_percentile(collector.ttft_values, 99),
                  mean |-> IF collector.ttft_values # <<>>
                           THEN Mean(collector.ttft_values) ELSE <<0, 1>>,
                  total_requests |-> Len(collector.ttft_values)]]
    /\ UNCHANGED <<conf_vars, sessions, lock, ACTIVE_SESSIONS, gpu_vars, now, task,
                   sweeper, released, lat_sum, last_sweep, poll, monitor,
                   bench_vars, suite, llm, loadtest, profiler>>

\* ---------------------------------------------------- memory_profiler.py
\* MemoryProfile(session_count, ..., memory_percent, ...)
MemoryProfile(session_count, memory_percent) ==
    [session_count |-> session_count, memory_percent |-> memory_percent]

\* get_gpu_memory: "percent" of the first entry of "gpus" in the answer of
\* GET /v1/gpu/stats, 0 when the list is empty
MemoryPercent(stats, memory_percent) == IF stats # <<>> THEN memory_percent ELSE 0

\* profile_sessions(max_sessions) is entered
profile_sessions(n) ==
    /\ profiler.pc = "idle"
    /\ profiler' = [profiler EXCEPT !.pc = "baseline", !.max_sessions = n]
    /\ UNCHANGED <<conf_vars, sessions, lock, ACTIVE_SESSIONS, gpu_vars, now, task,
                   sweeper, released, lat_sum, last_sweep, poll, monitor,
                   bench_vars, suite, llm, loadtest, collector>>

\* get_gpu_memory: the server handles GET /v1/gpu/stats (gpu_stats calls
\* get_gpu_stats); the baseline profile, or the profile of session i, is
\* appended; the loop ends after max_sessions sessions or above 90%
get_gpu_memory(reading, memory_percent) ==
    /\ profiler.pc \in {"baseline", "measure"}
    /\ thermal_state' = IF initialized THEN PollThermal(thermal_state, reading)
                                        ELSE thermal_state
    /\ poll' = IF initialized
                  THEN [by |-> "gpu_stats", reading |-> reading,
                        stats |-> StatsLoop(0, reading)]
                  ELSE [by |-> "gpu_stats", reading |-> <<>>, stats |-> <<>>]
    /\ LET percent == MemoryPercent(poll'.stats, memory_percent)
       IN  profiler' =
             IF profiler.pc = "baseline"
             THEN [profiler EXCEPT
                     !.profiles = Append(@, MemoryProfile(0, percent)),
                     !.i = 1,
                     !.pc = IF 1 <= profiler.max_sessions THEN "create"
                                                          ELSE "cleanup"]
             ELSE [profiler EXCEPT
                     !.profiles = Append(@, MemoryProfile(profiler.i, percent)),
                     !.i = IF percent > 90 THEN @ ELSE @ + 1,
                     !.pc = IF percent > 90 \/ profiler.i + 1 > profiler.max_sessions
                            THEN "cleanup" ELSE "create"]
    /\ UNCHANGED <<conf_vars, sessions, lock, ACTIVE_SESSIONS, initialized, now, task,
                   sweeper, released, lat_sum, last_sweep, monitor,
                   bench_vars, suite, llm, loadtest, collector>>

\* MemoryProfiler.create_session: POST /v1/sessions answered 200 with `id`;
\* self.active_sessions.append(session_id)
profiler_create_ok(id) ==
    /\ profiler.pc = "create"
    /\ Admits(sessions, max_sessions)
    /\ sessions' = Register(sessions, id, now)
    /\ ACTIVE_SESSIONS' = Cardinality(DOMAIN sessions')
    /\ lat_sum' = [lat_sum EXCEPT ![id] = 0]
    /\ profiler' = [profiler EXCEPT !.pc = "warm",
                                    !.active_sessions = Append(@, id),
                                    !.created = Append(@, id)]
    /\ UNCHANGED <<conf_vars, lock, gpu_vars, now, task, sweeper, released,
                   last_sweep, poll, monitor, bench_vars, suite, llm, loadtest,
                   collector>>

\* MemoryProfiler.create_session returns None (503): the loop breaks
profiler_create_failed ==
    /\ profiler.pc = "create"
    /\ ~Admits(sessions, max_sessions)
    /\ profiler' = [profiler EXCEPT !.pc = "cleanup", !.failed = @ + 1]
    /\ UNCHANGED <<conf_vars, sessions, lock, ACTIVE_SESSIONS, gpu_vars, now, task,
                   sweeper, released, lat_sum, last_sweep, poll, monitor,
                   bench_vars, suite, llm, loadtest, collector>>

\* warm_session: POST /v1/chat on the new session; the answer is ignored
warm_session(tokens, latency_ms) ==
    /\ profiler.pc = "warm"
    /\ LET session_id == profiler.active_sessions[Len(profiler.active_sessions)]
       IN  /\ sessions' = IF loaded
                             THEN UpdateRegistry(sessions, session_id, tokens,
                                                 latency_ms, now)
                             ELSE sessions
           /\ lat_sum' = IF loaded /\ session_id \in DOMAIN sessions
                         THEN [lat_sum EXCEPT ![session_id] = @ + latency_ms]
                         ELSE lat_sum
    /\ profiler' = [profiler EXCEPT !.pc = "measure"]
    /\ UNCHANGED <<conf_vars, lock, ACTIVE_SESSIONS, gpu_vars, now, task, sweeper,
                   released, last_sweep, poll, monitor, bench_vars, suite, llm,
                   loadtest, collector>>

\* the clean-up loop forgetting the sessions without closing them
profiler_close_session_ClearOnly ==
    /\ profiler.pc = "cleanup"
    /\ profiler' = [profiler EXCEPT !.pc = "done", !.active_sessions = <<>>]
    /\ UNCHANGED <<conf_vars, sessions, lock, ACTIVE_SESSIONS, gpu_vars, now, task,
                   sweeper, released, lat_sum, last_sweep, poll, monitor,
                   bench_vars, suite, llm, loadtest, collector>>

\* `for sid in self.active_sessions: await self.close_session(sid)`, one
\* DELETE per step, then self.active_sessions.clear() and the return
profiler_close_session ==
    /\ profiler.pc = "cleanup"
    /\ IF Len(profiler.closed) < Len(profiler.active_sessions)
       THEN LET sid == profiler.active_sessions[Len(profiler.closed) + 1]
            IN  /\ sessions' = CloseRegistry(sessions, sid)
                /\ ACTIVE_SESSIONS' = IF sid \in DOMAIN sessions
                                      THEN Cardinality(DOMAIN sessions')
                                      ELSE ACTIVE_SESSIONS
                /\ released' = released \cup (DOMAIN sessions \ DOMAIN sessions')
                /\ profiler' = [profiler EXCEPT !.closed = Append(@, sid)]
       ELSE /\ profiler' = [profiler EXCEPT !.pc = "done", !.active_sessions = <<>>]
            /\ UNCHANGED <<sessions, ACTIVE_SESSIONS, released>>
    /\ UNCHANGED <<conf_vars, lock, gpu_vars, now, task, sweeper, lat_sum,
                   last_sweep, poll, monitor, bench_vars, suite, llm, loadtest,
                   collector>>

\* time passes
Tick ==
    /\ now < MaxTime
    /\ now' = now + 1
    /\ UNCHANGED <<conf_vars, tool_vars, poll, monitor, bench_vars,
                   sessions, lock, ACTIVE_SESSIONS, gpu_vars, task,
                   sweeper, released, lat_sum, last_sweep>>

\* the steps of the session pool and its clients
PoolNext ==
    \/ \E t \in Tasks : create_session_enter(t)
    \/ \E t \in Tasks : chat_new_enter(t)
    \/ \E t \in Tasks : create_session_reject(t)
    \/ \E t \in Tasks, id \in Ids : create_session_admit(t, id)
    \/ \E t \in Tasks, id \in Ids : chat_lookup(t, id)
    \/ \E t \in Tasks : generate_fail(t)
    \/ \E t \in Tasks : update_session_enter(t)
    \/ \E t \in Tasks, k \in TokenCounts, l \in Latencies : update_session_body(t, k, l)
    \/ \E t \in Tasks, id \in Ids : close_session_enter(t, id)
    \/ \E t \in Tasks : close_session_body(t)
    \/ cleanup_enter
    \/ \E m \in 0..MaxIdle : cleanup_stale_sessions(m)
    \/ Tick

\* the server after construction, NVML found
InitPool == Init /\ initialized = TRUE

\* The session pool under concurrent clients.  No step of the pool reads the
\* thermal state (see create_session), so polls are left to SpecThermal.
Spec == InitPool /\ [][PoolNext]_vars

\* the steps of admission, release and telemetry polls
ThermalNext ==
    \/ \E t \in Tasks : create_session_enter(t)
    \/ \E t \in Tasks : create_session_reject(t)
    \/ \E t \in Tasks, id \in Ids : create_session_admit(t, id)
    \/ \E t \in Tasks, id \in Ids : close_session_enter(t, id)
    \/ \E t \in Tasks : close_session_body(t)
    \/ \E r \in [Gpus -> AdmissionTemps \cup {ReadFailed}] :
            get_gpu_stats("gpu_thermal", r)

\* Admission while handlers poll the GPUs.
SpecThermal == Init /\ [][ThermalNext]_vars

\* the steps that remove sessions, and polls that turn gpus critical and back
EvictNext ==
    \/ \E t \in Tasks : create_session_enter(t)
    \/ \E t \in Tasks : create_session_reject(t)
    \/ \E t \in Tasks, id \in Ids : create_session_admit(t, id)
    \/ \E t \in Tasks, id \in Ids : close_session_enter(t, id)
    \/ \E t \in Tasks : close_session_body(t)
    \/ cleanup_enter
    \/ \E m \in 0..MaxIdle : cleanup_stale_sessions(m)
    \/ Tick
    \/ \E r \in [Gpus -> CriticalTemps] : get_gpu_stats("gpu_thermal", r)

InitEvict == InitPool /\ loaded = TRUE

\* Release and sweep while the thermal state changes.
SpecEvict == InitEvict /\ [][EvictNext]_vars

\* one run of run_concurrent_test against the server
BenchNext ==
    \/ \E n \in 1..NumUsers, r \in 1..MaxRequests : run_concurrent_test(n, r)
    \/ \E u \in DOMAIN users, id \in Ids : user_create_ok(u, id)
    \/ \E u \in DOMAIN users : user_create_rejected(u)
    \/ \E u \in DOMAIN users : user_create_error(u)
    \/ \E u \in DOMAIN users : user_chat_lookup(u)
    \/ \E u \in DOMAIN users, id \in Ids : user_chat_new(u, id)
    \/ \E u \in DOMAIN users, tokens \in TokenCounts, latency_ms \in BenchLatencies,
          ttft_ms \in BenchTtfts :
           user_chat_reply(u, tokens, latency_ms, ttft_ms)
    \/ \E u \in DOMAIN users : user_close(u)
    \/ gather

\* The benchmark client against the session pool.
SpecBench == InitPool /\ [][BenchNext]_vars

\* benchmark_inference.py from start to exit, against the server
SuiteNext ==
    \/ \E cs \in SuiteConfigs : inference_main(cs)
    \/ health_check([i \in Gpus |-> 0])
    \/ health_ok
    \/ health_failed
    \/ suite_level
    \/ \E u \in DOMAIN users, id \in Ids : user_create_ok(u, id)
    \/ \E u \in DOMAIN users : user_create_rejected(u)
    \/ \E u \in DOMAIN users : user_create_error(u)
    \/ \E u \in DOMAIN users : user_chat_lookup(u)
    \/ \E u \in DOMAIN users, id \in Ids : user_chat_new(u, id)
    \/ \E u \in DOMAIN users, tokens \in TokenCounts, latency_ms \in BenchLatencies,
          ttft_ms \in BenchTtfts :
           user_chat_reply(u, tokens, latency_ms, ttft_ms)
    \/ \E u \in DOMAIN users : user_close(u)
    \/ gather
    \/ \E d \in Durations : append_result(d)
    \/ suite_exit

InitSuite == Init /\ initialized = FALSE

\* The benchmark of benchmark_inference.py: health check, then its levels.
SpecSuite == InitSuite /\ [][SuiteNext]_vars

\* benchmark_llm.py from start to exit
LLMNext ==
    \/ \E ls \in LevelLists, r \in 1..MaxRequests : run_benchmark(ls, r)
    \/ run_concurrent_requests
    \/ \E i \in DOMAIN llm.requests : send_request(i)
    \/ \E i \in DOMAIN llm.requests, ttft_ms \in TtftValues, tps \in TpsValues :
           send_request_reply(i, Succeeded(ttft_ms, tps))
    \/ \E i \in DOMAIN llm.requests : send_request_reply(i, Failed("HTTP 500"))
    \/ \E i \in DOMAIN llm.requests, e \in ErrorTexts : send_request_raises(i, e)
    \/ \E i \in DOMAIN llm.requests : send_request_timeout(i)
    \/ \E d \in Durations : append_metrics(d)
    \/ llm_exit

InitLLM == Init /\ max_sessions = 1 /\ loaded = TRUE /\ initialized = FALSE

\* The benchmark of benchmark_llm.py against its endpoint.
SpecLLM == InitLLM /\ [][LLMNext]_vars

\* one of the two benchmark programs is run
BenchmarksNext ==
    \/ llm.pc = "idle" /\ SuiteNext
    \/ suite.pc = "idle" /\ LLMNext

\* Either benchmark program, from start to exit.
SpecBenchmarks == InitSuite /\ [][BenchmarksNext]_vars

LoadTestNext ==
    \/ \E n \in 1..NumUsers, r \in 1..MaxRequests : run_load_test(n, r)
    \/ \E id \in Ids : loadtest_create_ok(id)
    \/ loadtest_create_rejected
    \/ loadtest_phase2
    \/ \E i \in DOMAIN loadtest.tasks : send_inference(i)
    \/ \E i \in DOMAIN loadtest.tasks, n \in TokenCounts, l \in BenchLatencies :
          send_inference_reply(i, n, l)
    \/ \E l \in BenchLatencies : loadtest_collect(l)

\* run_load_test against one endpoint
SpecLoadTest == InitPool /\ [][LoadTestNext]_vars

CollectorNext ==
    \/ \E v \in SampleValues : record(v)
    \/ summary

\* the collector of one locust process; the server is not part of it
InitCollector == Init /\ max_sessions = 1 /\ loaded = TRUE /\ initialized = FALSE

\* The MetricsCollector of the locust load test.
SpecCollector == InitCollector /\ [][CollectorNext]_vars

\* the steps of the pool with cleanup_loop calling cleanup_stale_sessions()
\* with its default max_idle_seconds
SweepNext ==
    \/ \E t \in Tasks : create_session_enter(t)
    \/ \E t \in Tasks : create_session_reject(t)
    \/ \E t \in Tasks, id \in Ids : create_session_admit(t, id)
    \/ \E t \in Tasks, id \in Ids : chat_lookup(t, id)
    \/ \E t \in Tasks : update_session_enter(t)
    \/ \E t \in Tasks, k \in TokenCounts, l \in Latencies : update_session_body(t, k, l)
    \/ \E t \in Tasks, id \in Ids : close_session_enter(t, id)
    \/ \E t \in Tasks : close_session_body(t)
    \/ cleanup_enter
    \/ cleanup_stale_sessions(MaxIdle)
    \/ Tick

\* the body of an `async with self._lock` block entered by request t: it
\* contains no await, so it runs to its end once entered
LockedBody(t) ==
    \/ create_session_reject(t)
    \/ \E id \in Ids : create_session_admit(t, id)
    \/ \E k \in TokenCounts, l \in Latencies : update_session_body(t, k, l)
    \/ close_session_body(t)

\* time passes; a locked body ends; cleanup_loop wakes from its sleep again
\* and again, and asyncio.Lock serves its waiters in turn, so the loop gets
\* the lock if it is free again and again
SweepFairness ==
    /\ WF_vars(Tick)
    /\ \A t \in Tasks : WF_vars(LockedBody(t))
    /\ SF_vars(cleanup_enter)
    /\ WF_vars(cleanup_stale_sessions(MaxIdle))

InitSweep == InitPool /\ loaded = TRUE

\* The pool with its background cleanup loop running.
SpecSweep == InitSweep /\ [][SweepNext]_vars /\ SweepFairness

ProfilerNext ==
    \/ \E n \in 1..NumUsers : profile_sessions(n)
    \/ \E r \in [Gpus -> CriticalTemps \cup {ReadFailed}], m \in ProfilerPercents :
          get_gpu_memory(r, m)
    \/ \E id \in Ids : profiler_create_ok(id)
    \/ profiler_create_failed
    \/ \E k \in TokenCounts, l \in BenchLatencies : warm_session(k, l)
    \/ profiler_close_session

\* memory_profiler.py against a server
SpecProfiler == Init /\ [][ProfilerNext]_vars

MonitorNext == \E r \in [Gpus -> MonitorReadings] : monitor_sample(r)

\* The standalone monitor of monitoring/gpu-metrics.py.
SpecMonitor == Init /\ [][MonitorNext]_vars

\* every handler that polls, with every reading
PollNext ==
    \E h \in Handlers, r \in [Gpus -> Temps \cup {ReadFailed}] : get_gpu_stats(h, r)

InitPoll == Init /\ max_sessions = 1 /\ loaded = TRUE

\* Telemetry polls alone, on a server that does nothing else.
SpecPoll == InitPoll /\ [][PollNext]_vars

\* ------------------------------------------------------------------ claims
\* the tasks inside an `async with self._lock` block
InCS ==
    {t \in Tasks : task[t].pc \in {"create_cs", "update_cs", "close_cs"}}
        \cup (IF sweeper = "cs" THEN {Sweeper} ELSE {})

Admitted == {t \in Tasks : task[t].adm = "ok"}
Rejected == {t \in Tasks : task[t].adm = "rejected"}

\* C1: the number of registered sessions never exceeds max_sessions, under
\* every interleaving of create, update, close and cleanup.
C1_NeverExceedsCapacity == Cardinality(DOMAIN sessions) <= max_sessions

\* the registry is full and a create has been rejected
C1_Witness ==
    /\ Cardinality(DOMAIN sessions) = max_sessions
    /\ Rejected # {}

\* C2: with no release and no sweep, N completed create_session calls give
\* min(N, C) successes, N - min(N, C) rejections, and list_sessions counts
\* min(N, C) sessions.
C2_ExactAdmissions ==
    LET n == Cardinality(Admitted) + Cardinality(Rejected)
        noRemoval == /\ released = {}
                     /\ last_sweep = NoSweep
                     /\ \A t \in Tasks : task[t].op # "close"
    IN  noRemoval =>
            /\ Cardinality(Admitted) = Min(n, max_sessions)
            /\ Cardinality(Rejected) = n - Min(n, max_sessions)
            /\ ListCount(sessions) = Min(n, max_sessions)

\* C3: the registry changes only in a step of the task that holds the lock,
\* and at most one task is inside a locked block; the lock is held exactly
\* when a task is inside.
C3_MutualExclusion ==
    /\ [](/\ Cardinality(InCS) <= 1
          /\ (lock = NoHolder) <=> (InCS = {})
          /\ lock # NoHolder => InCS = {lock})
    /\ [][sessions' # sessions =>
              /\ lock # NoHolder
              /\ lock \in InCS
              /\ lock' = NoHolder
              /\ \A t \in Tasks \ {lock} : task'[t] = task[t]
              /\ (lock # Sweeper => sweeper' = sweeper)]_vars

\* one task is inside update_session while another has finished generate and
\* must wait for the lock
C3_Witness ==
    \E t, u \in Tasks :
        /\ t # u
        /\ task[t].pc = "update_cs"
        /\ task[u].pc = "executing"
        /\ loaded
        /\ lock = t

\* C4: while a GPU is critical and reject_on_critical is set, a create_session
\* call that finishes is rejected and the registry is left as it was.
C4_CriticalRejects ==
    [][(is_any_gpu_critical /\ reject_on_critical) =>
          \A t \in Tasks :
              (task[t].pc = "create_cs" /\ task'[t].pc # "create_cs") =>
                  /\ task'[t].adm = "rejected"
                  /\ sessions' = sessions]_vars

\* C5: close_session answers 200 whatever the registry holds; it leaves the
\* id unregistered and every other session as it was; on an id that is not
\* registered it changes nothing; closing twice equals closing once.
C5_CloseIdempotent ==
    /\ [](\A id \in Ids :
            CloseRegistry(CloseRegistry(sessions, id), id) = CloseRegistry(sessions, id))
    /\ [][\A t \in Tasks :
            (task[t].pc = "close_cs" /\ task'[t].pc # "close_cs") =>
                /\ task'[t].status = 200
                /\ task[t].sid \notin DOMAIN sessions'
                /\ DOMAIN sessions' = DOMAIN sessions \ {task[t].sid}
                /\ \A x \in DOMAIN sessions' : sessions'[x] = sessions[x]
                /\ (task[t].sid \notin DOMAIN sessions =>
                        /\ sessions' = sessions
                        /\ ACTIVE_SESSIONS' = ACTIVE_SESSIONS
                        /\ released' = released)]_vars

\* two DELETE requests have been answered (on ids never created, already
\* closed or already swept: two tasks cannot both have removed a session
\* that either of them created)
C5_Witness ==
    \E t, u \in Tasks :
        /\ t # u
        /\ task[t] = Answered("close", 200, "none")
        /\ task[u] = Answered("close", 200, "none")

\* C6: an id removed by close_session or cleanup_stale_sessions is never in
\* the registry again.
C6_ReleasedIsTerminal == \A id \in released : ~Found(sessions, id)

\* the mean step of the specification: old_mean + (latency - old_mean)/count
IncrementalMean(avg, count, latency_ms) ==
    Rat(avg[1] * count + (latency_ms * avg[2] - avg[1]), avg[2] * count)

\* C7: a session updated n >= 1 times holds the arithmetic mean of the n
\* latencies, and the next update's running average equals the
\* specification's incremental step.
C7_RunningMean ==
    \A id \in DOMAIN sessions :
        LET s == sessions[id] IN
        /\ s.request_count >= 1 =>
               RatEq(s.avg_latency_ms, <<lat_sum[id], s.request_count>>)
        /\ s.request_count = 0 => s.avg_latency_ms = <<0, 1>>
        /\ \A l \in Latencies :
               RunningAverage(s.avg_latency_ms, s.request_count + 1, l)
                   = IncrementalMean(s.avg_latency_ms, s.request_count + 1, l)

\* a session updated at least twice whose mean is not an integer
C7_Witness ==
    \E id \in DOMAIN sessions :
        /\ sessions[id].request_count >= 2
        /\ sessions[id].avg_latency_ms[2] # 1

\* C8: cleanup_stale_sessions(max_idle) removes every session with
\* now - last_request > max_idle and keeps every other session unchanged.
C8_SweepExact ==
    [][\A m \in 0..MaxIdle :
          cleanup_stale_sessions(m) =>
              /\ DOMAIN sessions' \subseteq DOMAIN sessions
              /\ \A id \in DOMAIN sessions :
                    /\ now - sessions[id].last_request > m => id \notin DOMAIN sessions'
                    /\ now - sessions[id].last_request <= m =>
                          /\ id \in DOMAIN sessions'
                          /\ sessions'[id] = sessions[id]]_vars

\* the latest sweep removed a session and kept one idle for exactly max_idle
C8_Witness == last_sweep.removed /\ last_sweep.kept_at_limit

\* C9: a chat request on an existing session whose generate succeeded has its
\* bookkeeping applied exactly once when it is answered.
C9_BookkeepingOnce ==
    [][\A t \in Tasks :
          (task[t].pc = "update_cs" /\ task[t].op = "chat" /\ task'[t].status = 200) =>
              /\ task[t].sid \in DOMAIN sessions
              /\ task[t].sid \in DOMAIN sessions'
              /\ sessions'[task[t].sid].request_count
                     = sessions[task[t].sid].request_count + 1]_vars

\* C10: a chat request naming an id that is not registered is answered 404 in
\* the same step: it never reaches generate, creates no session, leaves the
\* registry, the gauge and the lock as they were, and is not retried.
C10_UnknownSession404 ==
    [][\A t \in Tasks :
          /\ (task[t].pc = "idle" /\ task'[t].op = "chat") =>
                \/ /\ task'[t].pc = "executing"
                   /\ task'[t].sid \in DOMAIN sessions
                \/ /\ task'[t] = Answered("chat", 404, "none")
                   /\ DOMAIN sessions # Ids
                   /\ sessions' = sessions
                   /\ ACTIVE_SESSIONS' = ACTIVE_SESSIONS
                   /\ lock' = lock
          /\ task[t].pc = "done" => task'[t] = task[t]]_vars

\* a chat request has been answered 404 while another session is registered
C10_Witness ==
    /\ sessions # <<>>
    /\ \E t \in Tasks : task[t] = Answered("chat", 404, "none")

\* C11: a successful create_session adds exactly one registry entry, under an
\* id that no earlier create_session returned (every id returned earlier is
\* still registered or has been released).
C11_UniqueIds ==
    [][\A t \in Tasks :
          (task[t].pc = "create_cs" /\ task'[t].adm = "ok") =>
              /\ Cardinality(DOMAIN sessions') = Cardinality(DOMAIN sessions) + 1
              /\ (DOMAIN sessions' \ DOMAIN sessions) \cap released = {}
              /\ \A x \in DOMAIN sessions : sessions'[x] = sessions[x]]_vars

\* the severity the thresholds give a temperature, one rule per band
InBand(temp, name) ==
    /\ (temp >= critical_temp_celsius) => name = "critical"
    /\ (temp < critical_temp_celsius /\ temp >= throttle_temp_celsius) =>
           name = "throttling"
    /\ (temp < throttle_temp_celsius /\ temp >= warning_temp_celsius) =>
           name = "warning"
    /\ (temp < warning_temp_celsius) => name = "normal"

\* C12: a temperature at or above critical is classified critical, else at or
\* above throttle throttling, else at or above warning warning, else normal;
\* this holds of the state kept for each gpu (as get_thermal_summary names it)
\* and of each stat the latest poll returned.
C12_Classification ==
    /\ \A i \in DOMAIN thermal_state :
           InBand(thermal_state[i].last_temp, ThermalStateName(thermal_state[i]))
    /\ \A k \in DOMAIN poll.stats :
           InBand(poll.stats[k].temperature_celsius, poll.stats[k].thermal_state)

\* the latest poll read each threshold value itself on some gpu
C12_Witness ==
    /\ poll.by # "none"
    /\ \E k \in DOMAIN poll.stats :
           /\ poll.stats[k].temperature_celsius = throttle_temp_celsius
           /\ poll.stats[k].thermal_state = "throttling"
    /\ \E i \in DOMAIN thermal_state :
           /\ thermal_state[i].last_temp = critical_temp_celsius
           /\ ThermalStateName(thermal_state[i]) = "critical"

\* C13: after any polls, the state held for each gpu, and the answers of
\* is_any_gpu_throttling and is_any_gpu_critical, are those of the latest
\* poll's reading alone; a gpu whose read failed in the latest poll has the
\* state of a gpu that was never read.
C13_LatestPollOnly ==
    (initialized /\ poll.by # "none") =>
        /\ \A i \in DOMAIN thermal_state :
               IF poll.reading[i] = ReadFailed
               THEN ThermalStateName(thermal_state[i]) = ThermalStateName(InitialThermal)
               ELSE InBand(poll.reading[i], ThermalStateName(thermal_state[i]))
        /\ is_any_gpu_throttling <=>
               \E i \in Gpus : /\ poll.reading[i] # ReadFailed
                               /\ poll.reading[i] >= throttle_temp_celsius
        /\ is_any_gpu_critical <=>
               \E i \in Gpus : /\ poll.reading[i] # ReadFailed
                               /\ poll.reading[i] >= critical_temp_celsius

\* the stats of the latest poll that are about gpu i
StatsOf(i) == {k \in DOMAIN poll.stats : poll.stats[k].gpu_id = i}

\* the same read outcomes as gpu-metrics.py meets them
AsMonitorReading(reading) ==
    [i \in Gpus |-> IF reading[i] = ReadFailed
                      THEN [ok |-> FALSE, memory_percent |-> 0, temperature |-> 0]
                      ELSE [ok |-> TRUE, memory_percent |-> 0,
                            temperature |-> reading[i]]]

C16_PollsOnlyOnTimer == poll.by \notin Handlers

\* C15: when NVML could not be initialized the thermal status is "unknown"
\* and counts as normal: is_any_gpu_throttling and is_any_gpu_critical are
\* false in every state, every poll returns the empty list, and create_session
\* is rejected only for capacity.
C15_UnknownIsNormal ==
    /\ [](~initialized =>
              /\ ThermalSummaryStatus = "unknown"
              /\ ~is_any_gpu_throttling
              /\ ~is_any_gpu_critical
              /\ poll.stats = <<>>)
    /\ [][\A t \in Tasks :
              (~initialized /\ task[t].pc = "create_cs" /\ task'[t].adm = "rejected")
                  => Cardinality(DOMAIN sessions) >= max_sessions]_vars

\* without NVML: a poll has been answered, one create admitted, one rejected
C15_Witness ==
    /\ ~initialized
    /\ poll.by # "none"
    /\ Admitted # {}
    /\ Rejected # {}

\* C17: while the latest thermal state is throttling and
\* reduce_sessions_on_throttle is set, create_session admits only below an
\* effective capacity smaller than max_sessions: at most max_sessions - 1, so
\* no admission happens with max_sessions - 1 sessions registered.
C17_ThrottleReducesCapacity ==
    [][\A t \in Tasks :
          (/\ reduce_sessions_on_throttle
           /\ is_any_gpu_throttling /\ ~is_any_gpu_critical
           /\ task[t].pc = "create_cs" /\ task'[t].adm = "ok")
              => Cardinality(DOMAIN sessions) < max_sessions - 1]_vars

\* C18: a poll, whatever it does to the thermal state, leaves the registry as
\* it is; a session leaves the registry only in the locked block of
\* close_session or of cleanup_stale_sessions.
C18_PollKeepsSessions ==
    [][/\ (poll' # poll \/ thermal_state' # thermal_state) => sessions' = sessions
       /\ (DOMAIN sessions \ DOMAIN sessions' # {}) =>
              \/ \E t \in Tasks : task[t].pc = "close_cs" /\ lock = t
              \/ sweeper = "cs" /\ lock = Sweeper]_vars

\* a poll has turned a gpu critical while a session stays registered, after a
\* sweep has removed another
C18_Witness ==
    /\ DOMAIN sessions # {}
    /\ last_sweep.removed
    /\ poll.by # "none"
    /\ is_any_gpu_critical

\* C19: memory pressure follows the threshold pattern on the memory usage:
\* at or above the critical threshold critical, else at or above the warning
\* threshold warning, else normal (no alert); the alert depends on the memory
\* usage alone, not on the temperature.
C19_MemoryPressure ==
    \A k \in DOMAIN monitor.snapshots :
        LET usage == monitor.snapshots[k].memory_percent
            alert == monitor.alerts[k]
        IN  /\ (usage >= memory_critical) => alert = "CRITICAL"
            /\ (usage < memory_critical /\ usage >= memory_warning) =>
                   alert = "WARNING"
            /\ (usage < memory_warning) => alert = ""
            /\ \A l \in DOMAIN monitor.snapshots :
                   monitor.snapshots[l].memory_percent = usage =>
                       monitor.alerts[l] = alert

\* a client whose session creation did not succeed
RejectedClient(u) == users[u].status = 503

\* C20: a virtual client whose session creation is rejected issues no
\* dispatch and contributes no sample to the results.
C20_RejectedClientIdle ==
    \A u \in DOMAIN users :
        RejectedClient(u) =>
            /\ users[u].pc # "inflight"
            /\ users[u].user_results = <<>>

ClientOf(i) == ((i - 1) \div loadtest.requests_per_session) + 1

\* C22: within a load run a client (session) never has more than one
\* dispatch in flight: two requests in flight belong to different clients
C22_ClientSequential ==
    \A i, j \in DOMAIN loadtest.tasks :
        /\ i # j
        /\ loadtest.tasks[i].st = "inflight"
        /\ loadtest.tasks[j].st = "inflight"
        => ClientOf(i) # ClientOf(j)

\* ---------------------------------------------------------------- C23
\* C23: when the load test completes, none of the sessions it created is
\* still registered in the pool
C23_SessionsReleased ==
    loadtest.pc = "done" =>
        \A k \in DOMAIN loadtest.session_ids :
            loadtest.session_ids[k] \notin DOMAIN sessions

\* ---------------------------------------------------------------- C24
\* C24: a request whose transport or executor failed yields a failed sample:
\* success = false with an error text
C24_FailureIsFailedSample ==
    \A i \in DOMAIN llm.requests :
        llm.requests[i].failure =>
            /\ ~llm.requests[i].success
            /\ llm.requests[i].error # NoError

\* ---------------------------------------------------------------- C25
\* C25: a level with concurrency c whose requests all succeed is reported
\* with total_requests = successful_requests = c * r and failed_requests = 0,
\* r being the request count given to the run; with one ttft value for all
\* requests every ttft percentile equals it
C25_LevelTotals ==
    [][(/\ Len(llm'.all_results) = Len(llm.all_results) + 1
        /\ \A i \in DOMAIN llm.requests :
               llm.requests[i].success /\ ~llm.requests[i].failure)
       => LET m == llm'.all_results[Len(llm'.all_results)]
              c == llm.concurrency_levels[llm.level]
              r == llm.requests_per_level
          IN  /\ m.total_requests = c * r
              /\ m.successful_requests = c * r
              /\ m.failed_requests = 0
              /\ \A t \in TtftValues :
                     (\A i \in DOMAIN llm.requests : llm.requests[i].ttft_ms = t)
                     => /\ RatEq(m.ttft_p50, <<t, 1>>)
                        /\ RatEq(m.ttft_p90, <<t, 1>>)
                        /\ RatEq(m.ttft_p99, <<t, 1>>)]_vars

\* ---------------------------------------------------------------- C26
\* the percentiles asked of a buffer
Percents == {0, 25, 50, 75, 90, 99, 100}

\* the buffer `data` read in the order given by the permutation `perm`
Reordered(data, perm) == [i \in DOMAIN data |-> data[perm[i]]]

\* C26: for a non-empty buffer each percentile routine returns the minimum
\* at p = 0 and the maximum at p = 100, is monotone in p, and returns the
\* same value for every insertion order of the samples
C26_PercentileOrder ==
    LET data == collector.ttft_values
        Ordered(P(_, _)) ==
            /\ RatEq(P(data, 0), <<ListMin(data), 1>>)
            /\ RatEq(P(data, 100), <<ListMax(data), 1>>)
            /\ \A p, q \in Percents : p <= q => RatLeq(P(data, p), P(data, q))
            /\ \A perm \in Permutations(DOMAIN data), p \in Percents :
                   RatEq(P(Reordered(data, perm), p), P(data, p))
    IN  data # <<>> =>
            /\ Ordered(percentile)
            /\ Ordered(InferenceBenchmark_percentile)
            /\ Ordered(get_percentile)

\* a buffer of three different values recorded out of order has been
\* summarised
C26_Witness ==
    /\ collector.ttft_values = <<4, 1, 2>>
    /\ collector.summary.total_requests = 3
    /\ collector.summary.p50 = <<2, 1>>
    /\ collector.summary.p99 = <<4, 1>>

\* ---------------------------------------------------------------- C27
\* the linear interpolation between the bracketing order statistics of the
\* sorted copy s of a buffer of n >= 1 values: k = (n-1)*p/100, f = floor(k),
\* c = min(f+1, n-1), s[f] + (s[c]-s[f])*(k-f), indices counted from 0
Interpolated(data, p) ==
    LET s == Sorted(data)
        n == Len(s)
        f == ((n - 1) * p) \div 100
        c == Min(f + 1, n - 1)
    IN  Rat(100 * s[f + 1] + (s[c + 1] - s[f + 1]) * ((n - 1) * p - 100 * f), 100)

\* C27: every percentile routine returns the linear interpolation, for
\* every non-empty buffer and every p
C27_LinearInterpolation ==
    LET data == collector.ttft_values
    IN  data # <<>> =>
            \A p \in Percents :
                /\ RatEq(percentile(data, p), Interpolated(data, p))
                /\ RatEq(InferenceBenchmark_percentile(data, p), Interpolated(data, p))
                /\ RatEq(get_percentile(data, p), Interpolated(data, p))

\* ---------------------------------------------------------------- C28
\* the percentile, mean, min, max and throughput fields of a level's metrics
ZeroMetrics(m) ==
    \A field \in {"ttft_min", "ttft_max", "ttft_mean", "ttft_p50", "ttft_p90",
                  "ttft_p99", "tokens_per_second_mean", "total_throughput"} :
        RatEq(m[field], <<0, 1>>)

\* C28: percentile of an empty buffer is 0, and a level whose requests all
\* failed is reported with successful_requests = 0, failed_requests =
\* total_requests and every percentile, mean, min, max and throughput 0
C28_AllFailedLevel ==
    [][/\ RatEq(percentile(<<>>, 50), <<0, 1>>)
       /\ RatEq(InferenceBenchmark_percentile(<<>>, 50), <<0, 1>>)
       /\ RatEq(get_percentile(<<>>, 50), <<0, 1>>)
       /\ (/\ Len(llm'.all_results) = Len(llm.all_results) + 1
           /\ \A i \in DOMAIN llm.requests : llm.requests[i].failure)
          => LET m == llm'.all_results[Len(llm'.all_results)]
             IN  /\ m.successful_requests = 0
                 /\ m.failed_requests = m.total_requests
                 /\ m.total_requests = Len(llm.requests)
                 /\ ZeroMetrics(m)]_vars

\* ---------------------------------------------------------------- C29
\* main returned from its health check: run_suite was never entered
HealthFailed == suite.pc = "done" /\ suite.level = 0

\* C29: the benchmark ends with exit code 0 when the run completes, and with
\* a non-zero exit code and no level executed when the health check fails
C29_ExitCodes ==
    suite.pc = "done" =>
        IF HealthFailed
        THEN suite.exit_code # 0 /\ suite.results = <<>> /\ users = <<>>
        ELSE suite.exit_code = 0

\* ---------------------------------------------------------------- C30
\* session `id` is registered and was last touched at time t
IdleSince(id, t) == id \in DOMAIN sessions /\ sessions[id].last_request = t

\* the times from which the model's clock can pass max_idle
SweepableTimes == {t \in 0..MaxTime : t + MaxIdle < MaxTime}

\* C30: with the cleanup loop running, a registered session that is neither
\* touched nor closed is eventually removed; and a sweep removes no session
\* that was touched within the last max_idle seconds
C30_IdleSessionSwept ==
    /\ \A id \in Ids, t \in SweepableTimes : IdleSince(id, t) ~> ~IdleSince(id, t)
    /\ [][\A id \in DOMAIN sessions :
              (sweeper = "cs" /\ id \notin DOMAIN sessions')
              => now - sessions[id].last_request > MaxIdle]_vars

\* at the end of the clock a sweep has emptied the registry of sessions that
\* no request had touched or closed
C30_Witness ==
    /\ last_sweep.removed
    /\ released # {}
    /\ \A t \in Tasks : task[t].op \notin {"close", "chat"}
    /\ sessions = <<>>
    /\ now = MaxTime

\* ---------------------------------------------------------------- C31
\* C31: a chat request whose generate fails is answered 500, and the step
\* leaves every session's statistics, the set of registered sessions and the
\* gauge as they were.
C31_FailedChatNoBookkeeping ==
    [][\A t \in Tasks :
          (task[t].pc = "executing" /\ ~loaded /\ task'[t] # task[t]) =>
              /\ task'[t].pc = "done"
              /\ task'[t].status = 500
              /\ sessions' = sessions
              /\ lat_sum' = lat_sum
              /\ ACTIVE_SESSIONS' = ACTIVE_SESSIONS]_vars

\* a chat on a registered session has been answered 500 and the session has
\* no request recorded
C31_Witness ==
    \E t \in Tasks :
        /\ task[t].op = "chat"
        /\ task[t].status = 500
        /\ \E id \in DOMAIN sessions : sessions[id].request_count = 0

\* ---------------------------------------------------------------- C32
\* C32: update_session on a registered id adds 1 to its request_count and
\* the tokens to its total_tokens, sets last_request to the current time and
\* leaves the other sessions and the set of ids unchanged; on an unregistered
\* id it changes nothing.  The counters of a session never decrease: where
\* an id keeps its entry with smaller counters, create_session has just
\* registered a new session under that id.
C32_UpdateFrame ==
    [][/\ \A t \in Tasks :
            (task[t].pc = "update_cs" /\ task'[t].pc # "update_cs") =>
                LET id == task[t].sid
                IN  /\ DOMAIN sessions' = DOMAIN sessions
                    /\ \A other \in DOMAIN sessions \ {id} :
                           sessions'[other] = sessions[other]
                    /\ id \in DOMAIN sessions =>
                           /\ sessions'[id].request_count
                                  = sessions[id].request_count + 1
                           /\ \E k \in TokenCounts :
                                  sessions'[id].total_tokens
                                      = sessions[id].total_tokens + k
                           /\ sessions'[id].last_request = now
                           /\ sessions'[id].created_at = sessions[id].created_at
                    /\ id \notin DOMAIN sessions => sessions' = sessions
       /\ \A id \in DOMAIN sessions \cap DOMAIN sessions' :
              \/ /\ sessions'[id].request_count >= sessions[id].request_count
                 /\ sessions'[id].total_tokens >= sessions[id].total_tokens
              \/ /\ \E t \in Tasks : task[t].pc = "create_cs" /\ lock = t
                 /\ sessions'[id] = InferenceSession(now)]_vars

\* a session has one request recorded, made after the time of its creation
C32_Witness ==
    \E id \in DOMAIN sessions :
        /\ sessions[id].request_count = 1
        /\ sessions[id].total_tokens \in TokenCounts
        /\ sessions[id].last_request > sessions[id].created_at

\* ---------------------------------------------------------------- C33
\* the samples of a level with success = true, and one field of them
SuccessfulSamples(rs) == SelectSeq(rs, LAMBDA r : r.success)
FieldOf(rs, field) == [i \in DOMAIN rs |-> rs[i][field]]

\* C33: every benchmark result has total_requests = successful_requests +
\* failed_requests, total_requests being the number of samples of the level
\* and successful_requests the number of successful ones; the percentile,
\* mean and throughput fields are computed from the successful samples only.
C33_CountsAddUp ==
    /\ [](/\ \A k \in DOMAIN suite.results :
                 suite.results[k].total_requests
                     = suite.results[k].successful_requests
                           + suite.results[k].failed_requests
          /\ \A k \in DOMAIN llm.all_results :
                 llm.all_results[k].total_requests
                     = llm.all_results[k].successful_requests
                           + llm.all_results[k].failed_requests)
    /\ [][/\ Len(suite'.results) = Len(suite.results) + 1 =>
                LET m == suite'.results[Len(suite'.results)]
                    ok == SuccessfulSamples(results)
                    ttft == FieldOf(ok, "ttft_ms")
                IN  /\ m.total_requests = Len(results)
                    /\ m.successful_requests = Len(ok)
                    /\ m.ttft_p50_ms = InferenceBenchmark_percentile(ttft, 50)
                    /\ m.ttft_p90_ms = InferenceBenchmark_percentile(ttft, 90)
                    /\ m.ttft_p99_ms = InferenceBenchmark_percentile(ttft, 99)
                    /\ ok # <<>> => RatEq(m.ttft_mean_ms, Mean(ttft))
                    /\ \E d \in Durations :
                           RatEq(m.requests_per_second, <<Len(ok), d>>)
          /\ Len(llm'.all_results) = Len(llm.all_results) + 1 =>
                LET m == llm'.all_results[Len(llm'.all_results)]
                    ok == SuccessfulSamples(llm.requests)
                    ttft == FieldOf(ok, "ttft_ms")
                IN  /\ m.total_requests = Len(llm.requests)
                    /\ m.successful_requests = Len(ok)
                    /\ m.ttft_p50 = percentile(ttft, 50)
                    /\ m.ttft_p90 = percentile(ttft, 90)
                    /\ m.ttft_p99 = percentile(ttft, 99)
                    /\ ok # <<>> =>
                           /\ RatEq(m.ttft_mean, Mean(ttft))
                           /\ RatEq(m.tokens_per_second_mean,
                                    Mean(FieldOf(ok, "tokens_per_second")))
                    /\ \E d \in Durations :
                           RatEq(m.total_throughput,
                                 <<Sum(FieldOf(ok, "tokens_generated")), d>>)]_vars

\* a level of two requests, one failed and one successful with ttft 20, has
\* been aggregated
C33_Witness ==
    \E k \in DOMAIN llm.all_results :
        /\ llm.all_results[k].successful_requests = 1
        /\ llm.all_results[k].failed_requests = 1
        /\ llm.all_results[k].ttft_p50 = <<20, 1>>

\* ---------------------------------------------------------------- C34
\* C34: while a load test with c sessions is running, the number of requests
\* in flight against the server never exceeds c
C34_InFlightBounded ==
    Cardinality({i \in DOMAIN loadtest.tasks : loadtest.tasks[i].st = "inflight"})
        <= loadtest.target_sessions

\* ---------------------------------------------------------------- C35
\* C35: a chat without session_id passes the admission check of
\* create_session: at capacity it is answered 503 without reaching generate;
\* admitted, the session it created is still registered when the chat is
\* answered, with 200 or with 500, no client having asked to close a session
C35_ImplicitSessionAdmission ==
    [][\A t \in Tasks :
          /\ (task[t].op = "chat_new" /\ task[t].pc = "create_cs"
                  /\ task'[t].pc # "create_cs") =>
                 IF Admits(sessions, max_sessions)
                 THEN task'[t].pc = "executing" /\ task'[t].sid \in DOMAIN sessions'
                 ELSE /\ task'[t].pc = "done"
                      /\ task'[t].status = 503
                      /\ sessions' = sessions
          /\ (task[t].op = "chat_new" /\ task[t].pc \in {"executing", "update_cs"}
                  /\ task'[t].pc = "done"
                  /\ \A u \in Tasks : task[u].op # "close") =>
                 task[t].sid \in DOMAIN sessions']_vars

\* ---------------------------------------------------------------- C36
\* C36: cleanup_stale_sessions never removes a session whose chat request
\* has started and is not yet completed
C36_SweepSparesInFlight ==
    [][\A t \in Tasks :
          (sweeper = "cs" /\ task[t].pc = "executing"
               /\ task[t].sid \in DOMAIN sessions)
          => task[t].sid \in DOMAIN sessions']_vars

\* ---------------------------------------------------------------- C37
\* C37: whenever the pool lock is free, the forge_active_sessions gauge
\* equals the number of registered sessions
C37_GaugeMatchesRegistry ==
    lock = NoHolder => ACTIVE_SESSIONS = Cardinality(DOMAIN sessions)

\* the lock is free after sessions were created and one of them removed:
\* the gauge went up and came down to the one session left
C37_Witness ==
    /\ lock = NoHolder
    /\ released # {}
    /\ Cardinality(DOMAIN sessions) = 1
    /\ ACTIVE_SESSIONS = 1

\* C38: profile_sessions creates sessions one at a time and stops at the first
\* failed creation or above 90% memory; the profiles carry session_count
\* 0, 1, 2, ... with one profile per created session after the baseline; on
\* return a close was issued for every created session, in order, and
\* active_sessions is empty
C38_ProfileThenCleanup ==
    /\ [](/\ \A k \in DOMAIN profiler.profiles :
                profiler.profiles[k].session_count = k - 1
          /\ profiler.failed <= 1
          /\ profiler.failed = 1 => profiler.pc \in {"cleanup", "done"}
          /\ (\E k \in DOMAIN profiler.profiles :
                k > 1 /\ profiler.profiles[k].memory_percent > 90)
               => profiler.pc \in {"cleanup", "done"}
          /\ profiler.pc \in {"cleanup", "done"}
               => Len(profiler.profiles) = Len(profiler.created) + 1
          /\ profiler.pc = "done"
               => /\ profiler.active_sessions = <<>>
                  /\ profiler.closed = profiler.created)
    /\ [][profiler'.created # profiler.created
            => /\ Len(profiler.profiles) = Len(profiler.created) + 1
               /\ Len(profiler.created) < profiler.max_sessions
               /\ Len(profiler'.created) = Len(profiler.created) + 1
               /\ profiler'.profiles = profiler.profiles]_vars

\* profile_sessions returned after two sessions, the second measured above 90%
C38_Witness ==
    /\ profiler.pc = "done"
    /\ Len(profiler.created) = 2
    /\ profiler.closed = profiler.created
    /\ profiler.profiles[3].memory_percent > 90
    /\ profiler.failed = 0

====
